---- MODULE Spec2Model ----
(***************************************************************************)
(* Billing / invoice engine of the 3PL back end (src/src/routes/           *)
(* billingEngine.js) as a state machine over the committed contents of the *)
(* MySQL tables it reads and writes.                                       *)
(*                                                                         *)
(* Every request handler runs in a request slot.  A handler that issues    *)
(* several statements is cut into steps at the statements that read rows   *)
(* other requests can change or that wait for a row lock (SELECT ... FOR   *)
(* UPDATE, UPDATE of a row another transaction holds); the statements      *)
(* after such a point touch only rows the transaction has locked or        *)
(* created, so they are folded into the step that commits.  The model has  *)
(* one client; a (client, month) key of the source is a month here.        *)
(* Months are the integer yyyymm, dates the integer yyyymmdd.              *)
(***************************************************************************)
EXTENDS Integers, Sequences, FiniteSets, TLC

VARIABLES
    exchange_rates,     \* table exchange_rates (THB->KRW rows), id = index
    billing_events,     \* table billing_events, id = index
    invoices,           \* table invoices, id = index
    invoice_items,      \* table invoice_items, id = index
    invoice_sequences,  \* table invoice_sequences, id = index
    settlement_batches, \* table settlement_batches, id = index
    settlement_lines,   \* table settlement_lines, id = index
    settlement_reopen_requests, \* table settlement_reopen_requests, id = index
    settlement_reopen_logs,     \* table settlement_reopen_logs, id = index
    service_events,     \* table service_events, id = index
    outbound_items,     \* table outbound_items, id = index
    return_items,       \* table return_items, id = index
    stock_balances,     \* table stock_balances, id = index
    stock_transactions, \* table stock_transactions (the ledger), id = index
    price_policies,     \* table price_policies joined to service_catalog, id = index
    invoice_lines,      \* table invoice_lines, id = index
    req,                \* request slot -> the handler it runs and its locals
    allocs,             \* history: committed sequence allocations, in commit order,
                        \* with the exchange-rate row a generated invoice used, the
                        \* invoice, and the billing events its items aggregate
    lastOp,             \* history: the request that completed last
    nOps                \* number of requests started so far

\* the tables of the reopen workflow, the settlement lines and the lines of
\* the invoices issued from settlement batches
settlement == <<settlement_lines, settlement_reopen_requests, settlement_reopen_logs,
                invoice_lines>>

\* the tables of the stock ledger, its line items and the service events
stock == <<service_events, outbound_items, return_items, stock_balances,
           stock_transactions, price_policies>>

vars == <<exchange_rates, billing_events, invoices, invoice_items,
          invoice_sequences, settlement_batches, settlement, stock, req, allocs, lastOp, nOps>>

tables == <<exchange_rates, billing_events, invoices, invoice_items,
            invoice_sequences, settlement_batches, settlement, stock>>

----------------------------------------------------------------------------
(* Bounds of the model *)

MaxSlots == 2
MaxOps == 4
MaxEvents == 3

Slots == 1..MaxSlots

\* SQL NULL in a numeric column
NULL == -1

Months == {202602, 202603}
InvoiceDates == {20260210, 20260228}

----------------------------------------------------------------------------
(* Pure helpers *)

Max(S) == CHOOSE x \in S : \A y \in S : y <= x

RECURSIVE SetToSeq(_)
\* ids in ascending order (ORDER BY id ASC)
SetToSeq(S) ==
    IF S = {} THEN <<>>
    ELSE LET m == CHOOSE x \in S : \A y \in S : x <= y
         IN <<m>> \o SetToSeq(S \ {m})

RECURSIVE SumSeq(_)
SumSeq(s) == IF s = <<>> THEN 0 ELSE Head(s) + SumSeq(Tail(s))

\* Number(x || 0): NULL counts as 0
Num(x) == IF x = NULL THEN 0 ELSE x

\* trunc100 without the truncation
truncNone(input) == Num(input)

trunc100(input) == (Num(input) \div 100) * 100

\* monthRange(invoiceMonth): first day of the month, first day of the next
monthRange(invoiceMonth) ==
    LET year == invoiceMonth \div 100
        month == invoiceMonth % 100
    IN [from |-> invoiceMonth * 100 + 1,
        to |-> IF month = 12 THEN (year + 1) * 10000 + 101
               ELSE (year * 100 + month + 1) * 100 + 1]

----------------------------------------------------------------------------
(* Request slots *)

\* body of an exchange-rate request (exchangeRateSchema)
NoPayload == [rate_date |-> 0, rate |-> 0, locked |-> 0, status |-> ""]

\* a reason left out of the request body (null in the tables)
NoReason == "null"

\* no line item: the body of an outbound or return item request, and the
\* row such a request read before it writes
NoItem == [order_id |-> 0, location_id |-> 0, qty |-> 0, box_count |-> 0,
           qty_restocked |-> 0, qty_disposed |-> 0]

Idle ==
    [op |-> "none", pc |-> "idle", month |-> 0, date |-> 0, regen |-> 0,
     arg |-> 0, payload |-> NoPayload, existing |-> 0, fxId |-> 0, fx |-> 0,
     evs |-> {}, seqRow |-> 0, seqRead |-> 0, locked |-> 0,
     batch |-> 0, request |-> 0, found |-> 0, rateId |-> 0, actor |-> 0,
     reason |-> NoReason, item |-> NoItem, prev |-> NoItem,
     snap |-> <<>>, ids |-> {}, invs |-> {}]

Free(t) == req[t].pc = "idle"

\* a new request may start in a free slot while the request budget lasts
CanStart(t) == Free(t) /\ nOps < MaxOps

NewReq(o, p) == [Idle EXCEPT !.op = o, !.pc = p]

\* the answer of the request r: its arguments, the code and the id returned
Answer(r, c, id) ==
    [op |-> r.op, month |-> r.month, date |-> r.date, regen |-> r.regen,
     arg |-> r.arg, payload |-> r.payload, code |-> c, rid |-> id]

\* requests in flight, and requests answered so far
Inflight == Cardinality({t \in Slots : req[t].pc # "idle"})
nDone == nOps - Inflight

\* Row locks held by open transactions (InnoDB record locks, held to commit)
InvLockedBy(t) == IF req[t].pc = "idle" THEN {}
                  ELSE req[t].invs \cup (IF req[t].existing = 0 THEN {}
                                         ELSE {req[t].existing})
EvLockedBy(t) == IF req[t].pc = "idle" THEN {} ELSE req[t].evs
RateLockedBy(t) == IF req[t].pc = "idle" \/ req[t].fxId = 0
                   THEN {} ELSE {req[t].fxId}
SeqLockedBy(t) == IF req[t].pc = "idle" \/ req[t].seqRow = 0
                  THEN {} ELSE {req[t].seqRow}

\* the invoice row read without FOR UPDATE
InvNeverLocked(t, id) == FALSE
InvLockedByOther(t, id) == \E u \in Slots \ {t} : id \in InvLockedBy(u)
EvLockedByOther(t, ids) == \E u \in Slots \ {t} : ids \cap EvLockedBy(u) # {}
RateLockedByOther(t, id) == \E u \in Slots \ {t} : id \in RateLockedBy(u)
\* the counter row read without FOR UPDATE
SeqNeverLocked(t, id) == FALSE
SeqLockedByOther(t, id) == \E u \in Slots \ {t} : id \in SeqLockedBy(u)

----------------------------------------------------------------------------
(* The database as one value, and the transaction wrapper *)

DB == [exchange_rates |-> exchange_rates, billing_events |-> billing_events,
       invoices |-> invoices, invoice_items |-> invoice_items,
       invoice_sequences |-> invoice_sequences,
       settlement_batches |-> settlement_batches,
       settlement_lines |-> settlement_lines,
       settlement_reopen_requests |-> settlement_reopen_requests,
       settlement_reopen_logs |-> settlement_reopen_logs,
       invoice_lines |-> invoice_lines,
       service_events |-> service_events, outbound_items |-> outbound_items,
       return_items |-> return_items, stock_balances |-> stock_balances,
       stock_transactions |-> stock_transactions]

Store(db) ==
    /\ exchange_rates' = db.exchange_rates
    /\ billing_events' = db.billing_events
    /\ invoices' = db.invoices
    /\ invoice_items' = db.invoice_items
    /\ invoice_sequences' = db.invoice_sequences
    /\ settlement_batches' = db.settlement_batches
    /\ settlement_lines' = db.settlement_lines
    /\ settlement_reopen_requests' = db.settlement_reopen_requests
    /\ settlement_reopen_logs' = db.settlement_reopen_logs
    /\ invoice_lines' = db.invoice_lines
    /\ service_events' = db.service_events
    /\ outbound_items' = db.outbound_items
    /\ return_items' = db.return_items
    /\ stock_balances' = db.stock_balances
    /\ stock_transactions' = db.stock_transactions
    /\ UNCHANGED price_policies

\* withTransaction(fn): the callback's writes are committed when it returns
\* (whatever value it returns) and rolled back when it throws.
withTransaction(written, threw) == IF threw THEN DB ELSE written

\* unique key of invoice_sequences on (client_id, yyyymm)
uq_invoice_sequences(rows, yyyymm) == \E i \in DOMAIN rows : rows[i].yyyymm = yyyymm

\* unique key of invoices on invoice_no
uq_invoice_no(rows, no) == \E i \in DOMAIN rows : rows[i].invoice_no = no

\* unique key of exchange_rates on (base_currency, quote_currency, rate_date);
\* a tombstoned row keeps its key
uq_exchange_rates(rows, rate_date, self) ==
    \E i \in DOMAIN rows : i # self /\ rows[i].rate_date = rate_date

----------------------------------------------------------------------------
(* POST /billing/events *)

EventPayloads ==
    { [service_code |-> "TH_BOX", event_date |-> 20260207, qty |-> 5,
       pricing_policy |-> "THB_BASED", unit_price_thb |-> 8, amount_thb |-> NULL,
       unit_price_krw |-> NULL, amount_krw |-> NULL],
      [service_code |-> "OUTBOUND_FEE", event_date |-> 20260209, qty |-> 1,
       pricing_policy |-> "KRW_FIXED", unit_price_thb |-> NULL, amount_thb |-> NULL,
       unit_price_krw |-> NULL, amount_krw |-> 3550] }

\* a ?? b
Coalesce(a, b) == IF a = NULL THEN b ELSE a

\* a || null
OrNull(a) == IF a = NULL \/ a = 0 THEN NULL ELSE a

NewBillingEvent(payload) ==
    LET amountThb == Coalesce(payload.amount_thb,
                              Coalesce(payload.unit_price_thb, 0) * Coalesce(payload.qty, 0))
        amountKrw == Coalesce(payload.amount_krw,
                              Coalesce(payload.unit_price_krw, 0) * Coalesce(payload.qty, 0))
    IN [service_code |-> payload.service_code,
        event_date |-> payload.event_date,
        qty |-> payload.qty,
        pricing_policy |-> payload.pricing_policy,
        unit_price_thb |-> OrNull(payload.unit_price_thb),
        amount_thb |-> IF payload.pricing_policy = "THB_BASED" THEN amountThb ELSE NULL,
        unit_price_krw |-> OrNull(payload.unit_price_krw),
        amount_krw |-> IF payload.pricing_policy = "KRW_FIXED"
                       THEN trunc100(amountKrw) ELSE NULL,
        fx_rate_thbkrw |-> NULL,
        status |-> "PENDING",
        invoice_id |-> NULL]

\* one autocommit INSERT; no row lock is needed for a new row
PostEvent(payload) ==
    /\ nOps < MaxOps
    /\ Len(billing_events) < MaxEvents
    /\ billing_events' = Append(billing_events, NewBillingEvent(payload))
    /\ nOps' = nOps + 1
    /\ lastOp' = Answer(NewReq("postEvent", "idle"), "OK", Len(billing_events) + 1)
    /\ UNCHANGED <<exchange_rates, invoices, invoice_items, invoice_sequences,
                   settlement_batches, settlement, stock, req, allocs>>

----------------------------------------------------------------------------
(* resolveInvoiceSequence and the invoice number *)

\* SELECT id, last_seq FROM invoice_sequences WHERE client_id = ? AND yyyymm = ?
\* LIMIT 1: the id of the counter row, 0 when there is none
SeqRowFor(rows, yyyymm) ==
    IF \E i \in DOMAIN rows : rows[i].yyyymm = yyyymm
    THEN CHOOSE i \in DOMAIN rows :
            /\ rows[i].yyyymm = yyyymm
            /\ \A j \in DOMAIN rows : rows[j].yyyymm = yyyymm => i <= j
    ELSE 0

\* the number resolveInvoiceSequence returns, from what its SELECT read
NextSeq(seqRow, seqRead) == IF seqRow = 0 THEN 1 ELSE seqRead + 1

\* the counter table after the INSERT or UPDATE of resolveInvoiceSequence
resolveInvoiceSequence(rows, yyyymm, seqRow, seqRead) ==
    IF seqRow = 0
    THEN Append(rows, [yyyymm |-> yyyymm, last_seq |-> 1])
    ELSE [rows EXCEPT ![seqRow].last_seq = NextSeq(seqRow, seqRead)]

\* `${prefix}-${client_id}-${yyyymm}-${seq padded to 4}`
InvoiceNo(prefix, yyyymm, seq) == <<prefix, yyyymm, seq>>

----------------------------------------------------------------------------
(* POST /billing/invoices/generate *)

\* the lookup of the existing invoice with the deleted_at filter inverted
ExistingInvoiceMissed(rows, invoice_month) ==
    LET S == {i \in DOMAIN rows :
                rows[i].invoice_month = invoice_month /\ rows[i].deleted}
    IN IF S = {} THEN 0 ELSE Max(S)

\* newest non-deleted invoice of the month (ORDER BY id DESC LIMIT 1), 0 if none
ExistingInvoice(rows, invoice_month) ==
    LET S == {i \in DOMAIN rows :
                rows[i].invoice_month = invoice_month /\ ~rows[i].deleted}
    IN IF S = {} THEN 0 ELSE Max(S)

\* the ORDER BY ascending: the earliest rate on or before the date
SelectFxEarliest(rows, invoice_date) ==
    LET S == {i \in DOMAIN rows :
                /\ ~rows[i].deleted
                /\ rows[i].status = "active"
                /\ rows[i].rate_date <= invoice_date}
    IN IF S = {} THEN 0
       ELSE CHOOSE i \in S : \A j \in S :
                \/ rows[j].rate_date > rows[i].rate_date
                \/ (rows[j].rate_date = rows[i].rate_date /\ j >= i)

\* the latest active, non-deleted rate with rate_date <= invoice_date
\* (ORDER BY rate_date DESC, id DESC LIMIT 1), 0 if none
SelectFx(rows, invoice_date) ==
    LET S == {i \in DOMAIN rows :
                /\ ~rows[i].deleted
                /\ rows[i].status = "active"
                /\ rows[i].rate_date <= invoice_date}
    IN IF S = {} THEN 0
       ELSE CHOOSE i \in S : \A j \in S :
                \/ rows[j].rate_date < rows[i].rate_date
                \/ (rows[j].rate_date = rows[i].rate_date /\ j <= i)

\* the release that reaches only the first event of the draft
ReleaseEventsFirstOnly(rows, invoice_id) ==
    LET linked == {i \in DOMAIN rows : rows[i].invoice_id = invoice_id}
    IN [i \in DOMAIN rows |->
           IF linked # {} /\ i = CHOOSE x \in linked : \A y \in linked : x <= y
           THEN [rows[i] EXCEPT !.status = "PENDING", !.invoice_id = NULL,
                                !.fx_rate_thbkrw = NULL]
           ELSE rows[i]]

\* UPDATE billing_events SET status = 'PENDING', invoice_id = NULL,
\* fx_rate_thbkrw = NULL WHERE invoice_id = ?
ReleaseEvents(rows, invoice_id) ==
    [i \in DOMAIN rows |->
        IF rows[i].invoice_id = invoice_id
        THEN [rows[i] EXCEPT !.status = "PENDING", !.invoice_id = NULL,
                             !.fx_rate_thbkrw = NULL]
        ELSE rows[i]]

TombstoneItems(rows, invoice_id) ==
    [i \in DOMAIN rows |->
        IF rows[i].invoice_id = invoice_id
        THEN [rows[i] EXCEPT !.deleted = TRUE] ELSE rows[i]]

\* the regenerate branch without the release of the events
RegenerateDraftKeepingEvents(db, existing) ==
    [db EXCEPT !.invoice_items = TombstoneItems(db.invoice_items, existing),
               !.invoices = [db.invoices EXCEPT ![existing].deleted = TRUE]]

\* the three statements of the regenerate branch
RegenerateDraft(db, existing) ==
    [db EXCEPT !.billing_events = ReleaseEvents(db.billing_events, existing),
               !.invoice_items = TombstoneItems(db.invoice_items, existing),
               !.invoices = [db.invoices EXCEPT ![existing].deleted = TRUE]]

\* UPDATE exchange_rates SET locked = 1 WHERE id = ?
LockRate(db, fxRateId) ==
    [db EXCEPT !.exchange_rates = [db.exchange_rates EXCEPT ![fxRateId].locked = 1]]

\* what the transaction in slot t has written so far, over the committed rows
TxView(t) ==
    LET r == req[t]
        d1 == IF r.op = "generate" /\ r.existing # 0 /\ r.pc # "regen"
              THEN RegenerateDraft(DB, r.existing) ELSE DB
    IN IF r.op = "generate" /\ r.fxId # 0 THEN LockRate(d1, r.fxId) ELSE d1

\* the PENDING events of the month
PendingEvents(rows, invoice_month) ==
    LET range == monthRange(invoice_month)
    IN {i \in DOMAIN rows :
            /\ rows[i].status = "PENDING"
            /\ rows[i].event_date >= range.from
            /\ rows[i].event_date < range.to}

\* the events of the month, whatever their status: the rows the locking
\* SELECT of the PENDING events has to pass
EventsInRange(rows, invoice_month) ==
    LET range == monthRange(invoice_month)
    IN {i \in DOMAIN rows :
            rows[i].event_date >= range.from /\ rows[i].event_date < range.to}

\* the THB amount truncated before the conversion instead of after it
NormalizedAmountTruncFirst(event, fx) ==
    IF event.pricing_policy = "THB_BASED"
    THEN LET amountThb == IF event.amount_thb # NULL THEN event.amount_thb
                          ELSE Num(event.unit_price_thb) * Num(event.qty)
         IN ((amountThb \div 100) * 100) * fx
    ELSE LET amountKrw == IF event.amount_krw # NULL THEN event.amount_krw
                          ELSE Num(event.unit_price_krw) * Num(event.qty)
         IN (amountKrw \div 100) * 100

\* an event's amount in KRW, truncated to 100
NormalizedAmount(event, fx) ==
    IF event.pricing_policy = "THB_BASED"
    THEN LET amountThb == IF event.amount_thb # NULL THEN event.amount_thb
                          ELSE Num(event.unit_price_thb) * Num(event.qty)
         IN trunc100(amountThb * fx)
    ELSE LET amountKrw == IF event.amount_krw # NULL THEN event.amount_krw
                          ELSE Num(event.unit_price_krw) * Num(event.qty)
         IN trunc100(amountKrw)

RECURSIVE GroupedCodes(_, _, _)
\* keys of the Map `grouped`, in insertion order
GroupedCodes(rows, ids, seen) ==
    IF ids = <<>> THEN <<>>
    ELSE LET c == rows[Head(ids)].service_code
         IN IF c \in seen THEN GroupedCodes(rows, Tail(ids), seen)
            ELSE <<c>> \o GroupedCodes(rows, Tail(ids), seen \cup {c})

\* grouped.get(code): qty and amount_krw accumulated over the events
Grouped(rows, ids, fx, code) ==
    LET mine == SelectSeq(ids, LAMBDA i : rows[i].service_code = code)
    IN [qty |-> SumSeq([k \in 1..Len(mine) |-> Num(rows[mine[k]].qty)]),
        amount_krw |-> SumSeq([k \in 1..Len(mine) |->
                                 NormalizedAmount(rows[mine[k]], fx)])]

\* the invoice item of one service code
ServiceItem(rows, ids, fx, code, invoiceId) ==
    LET agg == Grouped(rows, ids, fx, code)
        lineAmount == trunc100(agg.amount_krw)
        unitDisplay == IF agg.qty > 0 THEN trunc100(lineAmount \div agg.qty)
                       ELSE lineAmount
    IN [invoice_id |-> invoiceId, service_code |-> code, qty |-> agg.qty,
        unit_price_krw |-> unitDisplay, amount_krw |-> lineAmount,
        deleted |-> FALSE]

\* trunc100(subtotalKrw * 0.07); the double product and the integer quotient
\* have the same floor for every subtotal below 2 * 10^8
VatOf(subtotalKrw) == trunc100((subtotalKrw * 7) \div 100)

\* subtotal, VAT and total of the service items
Totals(items) ==
    LET subtotalKrw == trunc100(SumSeq([k \in 1..Len(items) |-> items[k].amount_krw]))
        vatKrw == VatOf(subtotalKrw)
    IN [subtotal_krw |-> subtotalKrw, vat_krw |-> vatKrw,
        total_krw |-> trunc100(subtotalKrw + vatKrw)]

\* the writes of generate after the sequence number is known: the invoice,
\* the events, the items, the VAT line and the totals
WriteInvoice(db, invoice_month, invoice_date, fx, selected, nextSeq) ==
    LET invoiceId == Len(db.invoices) + 1
        ids == SetToSeq(selected)
        codes == GroupedCodes(db.billing_events, ids, {})
        items == [k \in 1..Len(codes) |->
                    ServiceItem(db.billing_events, ids, fx, codes[k], invoiceId)]
        tot == Totals(items)
        vatItem == [invoice_id |-> invoiceId, service_code |-> "VAT_7", qty |-> 1,
                    unit_price_krw |-> tot.vat_krw, amount_krw |-> tot.vat_krw,
                    deleted |-> FALSE]
    IN [db EXCEPT
          !.invoices = Append(@,
              [invoice_month |-> invoice_month,
               invoice_no |-> InvoiceNo("KRW", invoice_month, nextSeq),
               status |-> "draft", invoice_date |-> invoice_date,
               fx_rate_thbkrw |-> fx, subtotal_krw |-> tot.subtotal_krw,
               vat_krw |-> tot.vat_krw, total_krw |-> tot.total_krw,
               total_amount |-> tot.total_krw, settlement_batch_id |-> NULL,
               deleted |-> FALSE]),
          !.billing_events = [i \in DOMAIN db.billing_events |->
              IF i \in selected
              THEN [db.billing_events[i] EXCEPT
                      !.amount_krw = NormalizedAmount(db.billing_events[i], fx),
                      !.fx_rate_thbkrw = fx, !.status = "INVOICED",
                      !.invoice_id = invoiceId]
              ELSE db.billing_events[i]],
          !.invoice_items = @ \o items \o <<vatItem>>]

\* bookkeeping shared by the steps: a slot's record changes, tables do not
Step(t, r) ==
    /\ req' = [req EXCEPT ![t] = r]
    /\ UNCHANGED <<exchange_rates, billing_events, invoices, invoice_items,
                   invoice_sequences, settlement_batches, settlement, stock, allocs, lastOp, nOps>>

\* the handler answers: its transaction ends with the tables as given
Finish(t, r, c, id, db) ==
    /\ req' = [req EXCEPT ![t] = Idle]
    /\ Store(db)
    /\ lastOp' = Answer(r, c, id)

\* the request arrives and runs the SELECT of the existing invoice FOR UPDATE
GenStart(t, invoice_month, invoice_date, regenerate_draft) ==
    /\ CanStart(t)
    /\ nOps' = nOps + 1
    /\ UNCHANGED allocs
    /\ LET r == [NewReq("generate", "fx") EXCEPT !.month = invoice_month,
                    !.date = invoice_date, !.regen = regenerate_draft]
           existing == ExistingInvoice(invoices, invoice_month)
       IN IF existing = 0
          THEN /\ req' = [req EXCEPT ![t] = r]
               /\ UNCHANGED <<tables, lastOp>>
          ELSE /\ ~InvLockedByOther(t, existing)
               /\ IF invoices[existing].status # "draft"
                  THEN Finish(t, r, "INVOICE_ALREADY_ISSUED", 0,
                              withTransaction(DB, FALSE))
                  ELSE IF regenerate_draft = 0
                  THEN Finish(t, r, "REUSED", existing,
                              withTransaction(DB, FALSE))
                  ELSE /\ req' = [req EXCEPT ![t] =
                                    [r EXCEPT !.pc = "regen", !.existing = existing]]
                       /\ UNCHANGED <<tables, lastOp>>

\* the UPDATE that releases the draft's events takes their row locks; the
\* two tombstoning UPDATEs follow on rows of the locked draft
GenRegen(t) ==
    /\ req[t].op = "generate" /\ req[t].pc = "regen"
    /\ LET linked == {i \in DOMAIN billing_events :
                        billing_events[i].invoice_id = req[t].existing}
       IN /\ ~EvLockedByOther(t, linked)
          /\ Step(t, [req[t] EXCEPT !.pc = "fx", !.evs = linked])

\* the counter resolved right after the rate, before the events are selected
GenFxThenSeq(t) ==
    /\ req[t].op = "generate" /\ req[t].pc = "fx"
    /\ UNCHANGED <<allocs, nOps>>
    /\ LET fxRateId == SelectFx(exchange_rates, req[t].date)
       IN IF fxRateId = 0
          THEN Finish(t, req[t], "FX_NOT_FOUND", 0,
                      withTransaction(TxView(t), FALSE))
          ELSE /\ ~RateLockedByOther(t, fxRateId)
               /\ req' = [req EXCEPT ![t] =
                            [req[t] EXCEPT !.pc = "seq", !.fxId = fxRateId,
                                           !.fx = exchange_rates[fxRateId].rate]]
               /\ UNCHANGED <<tables, lastOp>>

\* SELECT of the exchange rate FOR UPDATE, then UPDATE ... SET locked = 1
GenFx(t) ==
    /\ req[t].op = "generate" /\ req[t].pc = "fx"
    /\ UNCHANGED <<allocs, nOps>>
    /\ LET fxRateId == SelectFx(exchange_rates, req[t].date)
       IN IF fxRateId = 0
          THEN Finish(t, req[t], "FX_NOT_FOUND", 0,
                      withTransaction(TxView(t), FALSE))
          ELSE /\ ~RateLockedByOther(t, fxRateId)
               /\ req' = [req EXCEPT ![t] =
                            [req[t] EXCEPT !.pc = "events", !.fxId = fxRateId,
                                           !.fx = exchange_rates[fxRateId].rate]]
               /\ UNCHANGED <<tables, lastOp>>

\* the counter incremented before the check for an empty month
GenEventsCountingFirst(t) ==
    /\ req[t].op = "generate" /\ req[t].pc = "events"
    /\ UNCHANGED <<allocs, nOps>>
    /\ ~EvLockedByOther(t, EventsInRange(billing_events, req[t].month))
    /\ LET events == PendingEvents(TxView(t).billing_events, req[t].month)
           row == SeqRowFor(invoice_sequences, req[t].month)
           counted == [TxView(t) EXCEPT !.invoice_sequences =
                         resolveInvoiceSequence(@, req[t].month, row,
                            IF row = 0 THEN 0 ELSE invoice_sequences[row].last_seq)]
       IN IF events = {}
          THEN Finish(t, req[t], "NO_PENDING_EVENTS", 0, withTransaction(counted, FALSE))
          ELSE /\ req' = [req EXCEPT ![t] =
                            [req[t] EXCEPT !.pc = "seq", !.evs = @ \cup events]]
               /\ UNCHANGED <<tables, lastOp>>

\* SELECT of the month's PENDING events FOR UPDATE
GenEvents(t) ==
    /\ req[t].op = "generate" /\ req[t].pc = "events"
    /\ UNCHANGED <<allocs, nOps>>
    /\ ~EvLockedByOther(t, EventsInRange(billing_events, req[t].month))
    /\ LET events == PendingEvents(TxView(t).billing_events, req[t].month)
       IN IF events = {}
          THEN Finish(t, req[t], "NO_PENDING_EVENTS", 0,
                      withTransaction(TxView(t), FALSE))
          ELSE /\ req' = [req EXCEPT ![t] =
                            [req[t] EXCEPT !.pc = "seq", !.evs = @ \cup events]]
               /\ UNCHANGED <<tables, lastOp>>

\* resolveInvoiceSequence: the SELECT of the counter row FOR UPDATE
GenSeq(t) ==
    /\ req[t].op = "generate" /\ req[t].pc = "seq"
    /\ LET row == SeqRowFor(invoice_sequences, req[t].month)
       IN /\ row # 0 => ~SeqLockedByOther(t, row)
          /\ Step(t, [req[t] EXCEPT !.pc = "write", !.seqRow = row,
                        !.seqRead = IF row = 0 THEN 0
                                    ELSE invoice_sequences[row].last_seq])

\* resolveInvoiceSequence's INSERT or UPDATE, the invoice, its items and the
\* events, then the commit; a duplicate key makes the INSERT throw
GenWrite(t) ==
    /\ req[t].op = "generate" /\ req[t].pc = "write"
    /\ UNCHANGED nOps
    /\ LET r == req[t]
           view == TxView(t)
           nextSeq == NextSeq(r.seqRow, r.seqRead)
           threw == \/ (r.seqRow = 0 /\ uq_invoice_sequences(invoice_sequences, r.month))
                    \/ uq_invoice_no(invoices, InvoiceNo("KRW", r.month, nextSeq))
           selected == PendingEvents(view.billing_events, r.month) \cap r.evs
           counted == [view EXCEPT !.invoice_sequences =
                         resolveInvoiceSequence(@, r.month, r.seqRow, r.seqRead)]
           written == WriteInvoice(counted, r.month, r.date, r.fx, selected, nextSeq)
       IN /\ Finish(t, r, IF threw THEN "ER_DUP_ENTRY" ELSE "OK",
                    IF threw THEN 0 ELSE Len(invoices) + 1,
                    withTransaction(written, threw))
          /\ allocs' = IF threw THEN allocs
                       ELSE Append(allocs, [yyyymm |-> r.month, seq |-> nextSeq,
                                            fx_rate_id |-> r.fxId,
                                            invoice_id |-> Len(invoices) + 1,
                                            events |-> selected])

Generate(t) ==
    \/ \E m \in Months, d \in InvoiceDates, g \in {0, 1} : GenStart(t, m, d, g)
    \/ GenRegen(t)
    \/ GenFx(t)
    \/ GenEvents(t)
    \/ GenSeq(t)
    \/ GenWrite(t)

----------------------------------------------------------------------------
(* POST /billing/invoices/:id/issue *)

\* one transaction whose only lock is the invoice row: it waits for the row,
\* then checks, writes and commits
IssueInvoice(invoiceId) ==
    /\ nOps < MaxOps
    /\ nOps' = nOps + 1
    /\ UNCHANGED <<req, allocs>>
    /\ LET r == [NewReq("issue", "idle") EXCEPT !.arg = invoiceId]
           found == invoiceId \in DOMAIN invoices /\ ~invoices[invoiceId].deleted
       IN IF ~found
          THEN /\ lastOp' = Answer(r, "NOT_FOUND", 0)
               /\ Store(withTransaction(DB, FALSE))
          ELSE /\ \A t \in Slots : invoiceId \notin InvLockedBy(t)
               /\ IF invoices[invoiceId].status # "draft"
                  THEN /\ lastOp' = Answer(r, "INVALID_STATUS", 0)
                       /\ Store(withTransaction(DB, FALSE))
                  ELSE /\ lastOp' = Answer(r, "OK", invoiceId)
                       /\ Store(withTransaction(
                            [DB EXCEPT !.invoices[invoiceId].status = "issued"], FALSE))

\* the same handler statement by statement: the SELECT ... FOR UPDATE of the
\* invoice row and the checks
IssueStart(t, invoiceId) ==
    /\ CanStart(t)
    /\ nOps' = nOps + 1
    /\ UNCHANGED allocs
    /\ LET r == [NewReq("issue", "write") EXCEPT !.arg = invoiceId]
           found == invoiceId \in DOMAIN invoices /\ ~invoices[invoiceId].deleted
       IN IF ~found
          THEN Finish(t, r, "NOT_FOUND", 0, withTransaction(DB, FALSE))
          ELSE /\ ~InvLockedByOther(t, invoiceId)
               /\ IF invoices[invoiceId].status # "draft"
                  THEN Finish(t, r, "INVALID_STATUS", 0, withTransaction(DB, FALSE))
                  ELSE /\ req' = [req EXCEPT ![t] = [r EXCEPT !.existing = invoiceId]]
                       /\ UNCHANGED <<tables, lastOp>>

\* UPDATE invoices SET status = 'issued', then the commit
IssueWrite(t) ==
    /\ req[t].op = "issue" /\ req[t].pc = "write"
    /\ UNCHANGED <<allocs, nOps>>
    /\ Finish(t, req[t], "OK", req[t].arg,
              withTransaction([DB EXCEPT !.invoices[req[t].arg].status = "issued"], FALSE))

Issue(t) ==
    \/ \E id \in 1..Len(invoices) : IssueStart(t, id)
    \/ IssueWrite(t)

----------------------------------------------------------------------------
(* POST /billing/invoices/:id/mark-paid *)

\* the SELECT ... FOR UPDATE of the invoice row and the checks
MarkPaidStart(t, invoiceId) ==
    /\ CanStart(t)
    /\ nOps' = nOps + 1
    /\ UNCHANGED allocs
    /\ LET r == [NewReq("markPaid", "write") EXCEPT !.arg = invoiceId]
           found == invoiceId \in DOMAIN invoices /\ ~invoices[invoiceId].deleted
       IN IF ~found
          THEN Finish(t, r, "NOT_FOUND", 0, withTransaction(DB, FALSE))
          ELSE /\ ~InvLockedByOther(t, invoiceId)
               /\ IF invoices[invoiceId].status # "issued"
                  THEN Finish(t, r, "INVALID_STATUS", 0, withTransaction(DB, FALSE))
                  ELSE /\ req' = [req EXCEPT ![t] = [r EXCEPT !.existing = invoiceId]]
                       /\ UNCHANGED <<tables, lastOp>>

\* UPDATE invoices SET status = 'paid', then the commit
MarkPaidWrite(t) ==
    /\ req[t].op = "markPaid" /\ req[t].pc = "write"
    /\ UNCHANGED <<allocs, nOps>>
    /\ Finish(t, req[t], "OK", req[t].arg,
              withTransaction([DB EXCEPT !.invoices[req[t].arg].status = "paid"], FALSE))

MarkPaid(t) ==
    \/ \E id \in 1..Len(invoices) : MarkPaidStart(t, id)
    \/ MarkPaidWrite(t)

----------------------------------------------------------------------------
(* POST /billing/events/mark-pending *)

\* mark-pending without the check of the linked invoices
MarkPendingUnchecked(ids) ==
    /\ nOps < MaxOps
    /\ nOps' = nOps + 1
    /\ UNCHANGED <<req, allocs>>
    /\ LET r == NewReq("markPending", "idle")
           rows == ids \cap DOMAIN billing_events
       IN /\ \A t \in Slots : rows \cap EvLockedBy(t) = {}
          /\ IF rows = {}
             THEN /\ lastOp' = Answer(r, "EVENTS_NOT_FOUND", 0)
                  /\ Store(withTransaction(DB, FALSE))
             ELSE /\ lastOp' = Answer(r, "OK", Cardinality(rows))
                  /\ Store(withTransaction(
                       [DB EXCEPT !.billing_events = [i \in DOMAIN billing_events |->
                           IF i \in ids
                           THEN [billing_events[i] EXCEPT !.status = "PENDING",
                                    !.invoice_id = NULL, !.fx_rate_thbkrw = NULL]
                           ELSE billing_events[i]]], FALSE))

\* one transaction: the SELECT ... FOR UPDATE locks the listed events and the
\* invoices joined to them; the check and the UPDATE follow on locked rows
MarkPending(ids) ==
    /\ nOps < MaxOps
    /\ nOps' = nOps + 1
    /\ UNCHANGED <<req, allocs>>
    /\ LET r == NewReq("markPending", "idle")
           rows == ids \cap DOMAIN billing_events
           joined == {billing_events[i].invoice_id : i \in rows} \cap
                     {j \in DOMAIN invoices : ~invoices[j].deleted}
           blocked == {i \in rows : billing_events[i].invoice_id \in joined /\
                          invoices[billing_events[i].invoice_id].status
                              \in {"issued", "paid"}}
       IN /\ \A t \in Slots : rows \cap EvLockedBy(t) = {} /\ joined \cap InvLockedBy(t) = {}
          /\ IF rows = {}
             THEN /\ lastOp' = Answer(r, "EVENTS_NOT_FOUND", 0)
                  /\ Store(withTransaction(DB, FALSE))
             ELSE IF blocked # {}
             THEN /\ lastOp' = Answer(r, "EVENTS_LOCKED", 0)
                  /\ Store(withTransaction(DB, FALSE))
             ELSE /\ lastOp' = Answer(r, "OK", Cardinality(rows))
                  /\ Store(withTransaction(
                       [DB EXCEPT !.billing_events = [i \in DOMAIN billing_events |->
                           IF i \in ids
                           THEN [billing_events[i] EXCEPT !.status = "PENDING",
                                    !.invoice_id = NULL, !.fx_rate_thbkrw = NULL]
                           ELSE billing_events[i]]], FALSE))

----------------------------------------------------------------------------
(* POST /billing/invoices/:id/duplicate-admin *)

\* the same handler lock by lock.  The request arrives with its ids
MpStart(t, ids) ==
    /\ CanStart(t)
    /\ nOps' = nOps + 1
    /\ UNCHANGED <<allocs, tables, lastOp>>
    /\ req' = [req EXCEPT ![t] = [NewReq("markPending", "event") EXCEPT !.ids = ids]]

\* the SELECT ... FOR UPDATE reads billing_events by id: the next listed
\* event is locked; when none is left the statement returns
MpEvent(t) ==
    /\ req[t].op = "markPending" /\ req[t].pc = "event"
    /\ LET todo == (req[t].ids \cap DOMAIN billing_events) \ req[t].evs
       IN IF todo = {}
          THEN Step(t, [req[t] EXCEPT !.pc = "write"])
          ELSE LET e == CHOOSE x \in todo : \A y \in todo : x <= y
               IN /\ ~EvLockedByOther(t, {e})
                  /\ Step(t, [req[t] EXCEPT !.pc = "join", !.evs = @ \cup {e}])

\* the LEFT JOIN: the non-deleted invoice of the event just locked is locked
MpJoin(t) ==
    /\ req[t].op = "markPending" /\ req[t].pc = "join"
    /\ LET e == Max(req[t].evs)
           i == billing_events[e].invoice_id
       IN IF i \in DOMAIN invoices /\ ~invoices[i].deleted
          THEN /\ ~InvLockedByOther(t, i)
               /\ Step(t, [req[t] EXCEPT !.pc = "event", !.invs = @ \cup {i}])
          ELSE Step(t, [req[t] EXCEPT !.pc = "event"])

\* the checks and the UPDATE on the locked rows, then the commit
MpWrite(t) ==
    /\ req[t].op = "markPending" /\ req[t].pc = "write"
    /\ UNCHANGED <<allocs, nOps>>
    /\ LET r == req[t]
           blocked == {i \in r.evs :
                          /\ billing_events[i].invoice_id \in r.invs
                          /\ invoices[billing_events[i].invoice_id].status
                                \in {"issued", "paid"}}
       IN IF r.evs = {}
          THEN Finish(t, r, "EVENTS_NOT_FOUND", 0, withTransaction(DB, FALSE))
          ELSE IF blocked # {}
          THEN Finish(t, r, "EVENTS_LOCKED", 0, withTransaction(DB, FALSE))
          ELSE Finish(t, r, "OK", Cardinality(r.evs),
                      withTransaction(
                        [DB EXCEPT !.billing_events = [i \in DOMAIN billing_events |->
                            IF i \in r.ids
                            THEN [billing_events[i] EXCEPT !.status = "PENDING",
                                     !.invoice_id = NULL, !.fx_rate_thbkrw = NULL]
                            ELSE billing_events[i]]], FALSE))

MarkPendingLocking(t) ==
    \/ \E ids \in SUBSET (1..Len(billing_events)) \ {{}} : MpStart(t, ids)
    \/ MpEvent(t)
    \/ MpJoin(t)
    \/ MpWrite(t)

\* slot t waits for a row lock that slot u holds: a regenerating generate
\* for the events of its draft, a mark-pending for the invoice of its event
WaitsFor(t, u) ==
    \/ /\ req[t].op = "generate" /\ req[t].pc = "regen"
       /\ {i \in DOMAIN billing_events :
              billing_events[i].invoice_id = req[t].existing} \cap EvLockedBy(u) # {}
    \/ /\ req[t].op = "markPending" /\ req[t].pc = "join"
       /\ billing_events[Max(req[t].evs)].invoice_id \in InvLockedBy(u)

\* InnoDB finds the cycle of waits and rolls one of the two transactions
\* back: its statement throws ER_LOCK_DEADLOCK and the handler answers 500
DeadlockVictim(t) ==
    /\ \E u \in Slots \ {t} : WaitsFor(t, u) /\ WaitsFor(u, t)
    /\ UNCHANGED <<allocs, nOps>>
    /\ Finish(t, req[t], "ER_LOCK_DEADLOCK", 0, withTransaction(DB, TRUE))

\* history: the billing events whose amounts the items of the invoice
\* aggregate, those generate selected for it or for the invoice it copies
AggregatedEvents(invoiceId) ==
    UNION {allocs[k].events :
              k \in {j \in DOMAIN allocs : allocs[j].invoice_id = invoiceId}}

\* the request arrives and locks the source invoice
DupStart(t, sourceInvoiceId) ==
    /\ CanStart(t)
    /\ nOps' = nOps + 1
    /\ UNCHANGED allocs
    /\ LET r == [NewReq("duplicate", "seq") EXCEPT !.arg = sourceInvoiceId]
           found == sourceInvoiceId \in DOMAIN invoices /\ ~invoices[sourceInvoiceId].deleted
       IN IF ~found
          THEN Finish(t, r, "NOT_FOUND", 0, withTransaction(DB, FALSE))
          ELSE /\ ~InvLockedByOther(t, sourceInvoiceId)
               /\ IF invoices[sourceInvoiceId].status = "draft"
                  THEN Finish(t, r, "INVALID_STATUS", 0, withTransaction(DB, FALSE))
                  ELSE /\ req' = [req EXCEPT ![t] =
                                    [r EXCEPT !.existing = sourceInvoiceId,
                                              !.month = invoices[sourceInvoiceId].invoice_month]]
                       /\ UNCHANGED <<tables, lastOp>>

\* resolveInvoiceSequence: the SELECT of the counter row FOR UPDATE
DupSeq(t) ==
    /\ req[t].op = "duplicate" /\ req[t].pc = "seq"
    /\ LET row == SeqRowFor(invoice_sequences, req[t].month)
       IN /\ row # 0 => ~SeqLockedByOther(t, row)
          /\ Step(t, [req[t] EXCEPT !.pc = "write", !.seqRow = row,
                        !.seqRead = IF row = 0 THEN 0
                                    ELSE invoice_sequences[row].last_seq])

\* the copy keeping the status of the source
CopyInvoiceKeepingStatus(db, sourceInvoiceId, nextSeq) ==
    LET src == db.invoices[sourceInvoiceId]
        newInvoiceId == Len(db.invoices) + 1
        active == SelectSeq(db.invoice_items,
                      LAMBDA it : it.invoice_id = sourceInvoiceId /\ ~it.deleted)
    IN [db EXCEPT
          !.invoices = Append(@,
              [src EXCEPT !.invoice_no = InvoiceNo("KRW", src.invoice_month, nextSeq),
                          !.total_amount = src.total_krw,
                          !.settlement_batch_id = NULL, !.deleted = FALSE]),
          !.invoice_items = @ \o [k \in 1..Len(active) |->
                                    [active[k] EXCEPT !.invoice_id = newInvoiceId]]]

\* the copy of the source as a new draft with its active items
CopyInvoice(db, sourceInvoiceId, nextSeq) ==
    LET src == db.invoices[sourceInvoiceId]
        newInvoiceId == Len(db.invoices) + 1
        active == SelectSeq(db.invoice_items,
                      LAMBDA it : it.invoice_id = sourceInvoiceId /\ ~it.deleted)
    IN [db EXCEPT
          !.invoices = Append(@,
              [src EXCEPT !.invoice_no = InvoiceNo("KRW", src.invoice_month, nextSeq),
                          !.status = "draft", !.total_amount = src.total_krw,
                          !.settlement_batch_id = NULL, !.deleted = FALSE]),
          !.invoice_items = @ \o [k \in 1..Len(active) |->
                                    [active[k] EXCEPT !.invoice_id = newInvoiceId]]]

DupWrite(t) ==
    /\ req[t].op = "duplicate" /\ req[t].pc = "write"
    /\ UNCHANGED nOps
    /\ LET r == req[t]
           nextSeq == NextSeq(r.seqRow, r.seqRead)
           threw == \/ (r.seqRow = 0 /\ uq_invoice_sequences(invoice_sequences, r.month))
                    \/ uq_invoice_no(invoices, InvoiceNo("KRW", r.month, nextSeq))
           counted == [DB EXCEPT !.invoice_sequences =
                         resolveInvoiceSequence(@, r.month, r.seqRow, r.seqRead)]
       IN /\ Finish(t, r, IF threw THEN "ER_DUP_ENTRY" ELSE "OK",
                    IF threw THEN 0 ELSE Len(invoices) + 1,
                    withTransaction(CopyInvoice(counted, r.existing, nextSeq), threw))
          /\ allocs' = IF threw THEN allocs
                       ELSE Append(allocs, [yyyymm |-> r.month, seq |-> nextSeq,
                                            fx_rate_id |-> 0,
                                            invoice_id |-> Len(invoices) + 1,
                                            events |-> AggregatedEvents(r.existing)])

DuplicateAdmin(t) ==
    \/ \E id \in 1..Len(invoices) : DupStart(t, id)
    \/ DupSeq(t)
    \/ DupWrite(t)

----------------------------------------------------------------------------
(* Settlement batches: locks, clock and the service events they total *)

BatchLockedBy(t) == IF req[t].pc = "idle" \/ req[t].batch = 0
                    THEN {} ELSE {req[t].batch}
RequestLockedBy(t) == IF req[t].pc = "idle" \/ req[t].request = 0
                      THEN {} ELSE {req[t].request}

\* the settlement batch row read without FOR UPDATE
BatchNeverLocked(t, id) == FALSE
BatchLockedByOther(t, id) == \E u \in Slots \ {t} : id \in BatchLockedBy(u)
\* the reopen request row read without FOR UPDATE
RequestNeverLocked(t, id) == FALSE
RequestLockedByOther(t, id) == \E u \in Slots \ {t} : id \in RequestLockedBy(u)

\* NOW(): the number of requests taken in so far
Now == nOps

\* the calendar date of NOW()
Today == 20260214

\* the client's service events before the first request: recorded directly
SeedServiceEvents ==
    << [client_id |-> 1, event_date |-> 20260205, source_type |-> "manual", stock_transaction_id |-> NULL,
        qty |-> 3, box_count |-> 0, unit_price |-> 3500, amount |-> 10500,
        currency |-> "KRW", deleted |-> FALSE],
       [client_id |-> 1, event_date |-> 20260212, source_type |-> "manual", stock_transaction_id |-> NULL,
        qty |-> 1, box_count |-> 0, unit_price |-> 120, amount |-> 120,
        currency |-> "THB", deleted |-> FALSE],
       [client_id |-> 1, event_date |-> 20260303, source_type |-> "manual", stock_transaction_id |-> NULL,
        qty |-> 1, box_count |-> 0, unit_price |-> 700, amount |-> 700,
        currency |-> "KRW", deleted |-> FALSE] >>

\* the client whose invoices and settlement batches the model follows
ClientId == 1

\* ids of the client's non-deleted service events of the month, in id order
ServiceEventsIn(rows, billing_month) ==
    LET range == monthRange(billing_month)
    IN SetToSeq({i \in DOMAIN rows :
                    /\ rows[i].client_id = ClientId
                    /\ ~rows[i].deleted
                    /\ rows[i].event_date >= range.from
                    /\ rows[i].event_date < range.to})

\* one settlement line per service event
SettlementLines(rows, batchId, events) ==
    [k \in 1..Len(events) |->
        [settlement_batch_id |-> batchId, source_service_event_id |-> events[k],
         currency |-> rows[events[k]].currency,
         amount |-> rows[events[k]].amount, deleted |-> FALSE]]

----------------------------------------------------------------------------
(* POST /settlement-batches/generate *)

\* resolveFx: the rate named by the request, or the latest active rate dated
\* before the end of the month; 0 if none.  A plain SELECT: no lock.
resolveFx(rows, exchange_rate_id, rangeTo) ==
    IF exchange_rate_id # NULL
    THEN IF /\ exchange_rate_id \in DOMAIN rows
            /\ rows[exchange_rate_id].status = "active"
            /\ ~rows[exchange_rate_id].deleted
         THEN exchange_rate_id ELSE 0
    ELSE LET S == {i \in DOMAIN rows :
                     /\ rows[i].status = "active"
                     /\ ~rows[i].deleted
                     /\ rows[i].rate_date < rangeTo}
         IN IF S = {} THEN 0
            ELSE CHOOSE i \in S : \A j \in S :
                     \/ rows[j].rate_date < rows[i].rate_date
                     \/ (rows[j].rate_date = rows[i].rate_date /\ j <= i)

\* the non-deleted batches of the month
BatchesOf(rows, billing_month) ==
    {b \in DOMAIN rows : rows[b].billing_month = billing_month /\ ~rows[b].deleted}

\* resolveFx and the plain SELECT of the existing batch (LIMIT 1, no order);
\* the first plain SELECT fixes the snapshot the later plain SELECT of the
\* service events reads
SgStart(t, billing_month, exchange_rate_id) ==
    /\ CanStart(t)
    /\ nOps' = nOps + 1
    /\ UNCHANGED allocs
    /\ LET r == [NewReq("settlementGenerate", "write") EXCEPT !.month = billing_month]
           fx == resolveFx(exchange_rates, exchange_rate_id, monthRange(billing_month).to)
           existing == BatchesOf(settlement_batches, billing_month)
       IN IF fx = 0
          THEN Finish(t, r, "FX_NOT_FOUND", 0, withTransaction(DB, FALSE))
          ELSE /\ \E b \in (IF existing = {} THEN {0} ELSE existing) :
                     req' = [req EXCEPT ![t] =
                               [r EXCEPT !.found = b, !.rateId = fx,
                                         !.fx = exchange_rates[fx].rate,
                                         !.snap = service_events]]
               /\ UNCHANGED <<tables, lastOp>>

\* the recalculation that leaves the old lines of the batch in place
GenerateBatchKeepingLines(db, found, billing_month, rateId, rate) ==
    LET batchId == IF found = 0 THEN Len(db.settlement_batches) + 1 ELSE found
        events == ServiceEventsIn(db.service_events, billing_month)
        krwSubtotal == SumSeq([k \in 1..Len(events) |->
                                 IF db.service_events[events[k]].currency = "KRW"
                                 THEN db.service_events[events[k]].amount ELSE 0])
        thbSubtotal == SumSeq([k \in 1..Len(events) |->
                                 IF db.service_events[events[k]].currency = "THB"
                                 THEN db.service_events[events[k]].amount ELSE 0])
        totalKrw == krwSubtotal + thbSubtotal * rate
    IN [db EXCEPT
          !.settlement_batches =
              IF found = 0
              THEN Append(@, [billing_month |-> billing_month,
                              exchange_rate_id |-> rateId, status |-> "reviewed",
                              total_krw |-> totalKrw, closed_at |-> NULL,
                              closed_by |-> NULL, deleted |-> FALSE])
              ELSE [@ EXCEPT ![found].exchange_rate_id = rateId,
                             ![found].status = "reviewed",
                             ![found].total_krw = totalKrw,
                             ![found].deleted = FALSE],
          !.settlement_lines =
              @ \o SettlementLines(db.service_events, batchId, events)]

\* the batch as the handler leaves it: inserted, or reset and recalculated
\* with its lines tombstoned and written again; status ends as reviewed
GenerateBatch(db, found, billing_month, rateId, rate) ==
    LET batchId == IF found = 0 THEN Len(db.settlement_batches) + 1 ELSE found
        events == ServiceEventsIn(db.service_events, billing_month)
        krwSubtotal == SumSeq([k \in 1..Len(events) |->
                                 IF db.service_events[events[k]].currency = "KRW"
                                 THEN db.service_events[events[k]].amount ELSE 0])
        thbSubtotal == SumSeq([k \in 1..Len(events) |->
                                 IF db.service_events[events[k]].currency = "THB"
                                 THEN db.service_events[events[k]].amount ELSE 0])
        totalKrw == krwSubtotal + thbSubtotal * rate
    IN [db EXCEPT
          !.settlement_batches =
              IF found = 0
              THEN Append(@, [billing_month |-> billing_month,
                              exchange_rate_id |-> rateId, status |-> "reviewed",
                              total_krw |-> totalKrw, closed_at |-> NULL,
                              closed_by |-> NULL, deleted |-> FALSE])
              ELSE [@ EXCEPT ![found].exchange_rate_id = rateId,
                             ![found].status = "reviewed",
                             ![found].total_krw = totalKrw,
                             ![found].deleted = FALSE],
          !.settlement_lines =
              [k \in DOMAIN @ |->
                  IF @[k].settlement_batch_id = batchId
                  THEN [@[k] EXCEPT !.deleted = TRUE] ELSE @[k]]
              \o SettlementLines(db.service_events, batchId, events)]

\* the INSERT or UPDATE of the batch (the UPDATE waits for the row), the
\* lines of the service events of the snapshot, the totals, then the commit
SgWrite(t) ==
    /\ req[t].op = "settlementGenerate" /\ req[t].pc = "write"
    /\ UNCHANGED <<allocs, nOps>>
    /\ LET r == req[t]
       IN /\ r.found # 0 => ~BatchLockedByOther(t, r.found)
          /\ Finish(t, r, "OK",
                    IF r.found = 0 THEN Len(settlement_batches) + 1 ELSE r.found,
                    withTransaction(
                        [GenerateBatch([DB EXCEPT !.service_events = r.snap],
                                       r.found, r.month, r.rateId, r.fx)
                           EXCEPT !.service_events = service_events],
                        FALSE))

SettlementGenerate(t) ==
    \/ \E m \in Months, id \in {NULL, 1} : SgStart(t, m, id)
    \/ SgWrite(t)

----------------------------------------------------------------------------
(* POST /invoices/issue (invoice of a settlement batch) *)

\* INSERT INTO invoice_lines, for each non-deleted settlement line of the
\* batch in id order
InvoiceLines(lines, batchId, invoiceId) ==
    LET ids == SetToSeq({k \in DOMAIN lines :
                            lines[k].settlement_batch_id = batchId /\ ~lines[k].deleted})
    IN [k \in 1..Len(ids) |->
           [invoice_id |-> invoiceId, settlement_line_id |-> ids[k],
            amount |-> lines[ids[k]].amount, deleted |-> FALSE]]

\* the two plain SELECTs: the batch, and an invoice the batch already has
SiStart(t, settlement_batch_id) ==
    /\ CanStart(t)
    /\ nOps' = nOps + 1
    /\ UNCHANGED allocs
    /\ LET r == [NewReq("settlementIssue", "seq") EXCEPT !.arg = settlement_batch_id]
           found == /\ settlement_batch_id \in DOMAIN settlement_batches
                    /\ ~settlement_batches[settlement_batch_id].deleted
           existingInvoice == {i \in DOMAIN invoices :
                                 /\ invoices[i].settlement_batch_id = settlement_batch_id
                                 /\ ~invoices[i].deleted}
       IN IF ~found
          THEN Finish(t, r, "BATCH_NOT_FOUND", 0, withTransaction(DB, FALSE))
          ELSE IF existingInvoice # {}
          THEN Finish(t, r, "REUSED", CHOOSE i \in existingInvoice : TRUE,
                      withTransaction(DB, FALSE))
          ELSE /\ req' = [req EXCEPT ![t] =
                            [r EXCEPT !.month =
                                settlement_batches[settlement_batch_id].billing_month,
                              !.fx = settlement_batches[settlement_batch_id].total_krw,
                              !.snap = settlement_lines]]
               /\ UNCHANGED <<tables, lastOp>>

\* the SELECT of the counter row FOR UPDATE
SiSeq(t) ==
    /\ req[t].op = "settlementIssue" /\ req[t].pc = "seq"
    /\ LET row == SeqRowFor(invoice_sequences, req[t].month)
       IN /\ row # 0 => ~SeqLockedByOther(t, row)
          /\ Step(t, [req[t] EXCEPT !.pc = "write", !.seqRow = row,
                        !.seqRead = IF row = 0 THEN 0
                                    ELSE invoice_sequences[row].last_seq])

\* the counter's INSERT or UPDATE, the invoice, created as issued with the
\* total of the batch, and one invoice line per settlement line of the
\* batch in the view of the transaction
SiWrite(t) ==
    /\ req[t].op = "settlementIssue" /\ req[t].pc = "write"
    /\ UNCHANGED nOps
    /\ LET r == req[t]
           nextSeq == IF r.seqRow = 0 THEN 1 ELSE r.seqRead + 1
           threw == \/ (r.seqRow = 0 /\ uq_invoice_sequences(invoice_sequences, r.month))
                    \/ uq_invoice_no(invoices, InvoiceNo("INV", r.month, nextSeq))
           written ==
             [DB EXCEPT
                !.invoice_sequences =
                    IF r.seqRow = 0
                    THEN Append(@, [yyyymm |-> r.month, last_seq |-> nextSeq])
                    ELSE [@ EXCEPT ![r.seqRow].last_seq = nextSeq],
                !.invoices = Append(@,
                    [invoice_month |-> NULL,
                     invoice_no |-> InvoiceNo("INV", r.month, nextSeq),
                     status |-> "issued", invoice_date |-> NULL,
                     fx_rate_thbkrw |-> NULL, subtotal_krw |-> 0, vat_krw |-> 0,
                     total_krw |-> 0, total_amount |-> r.fx,
                     settlement_batch_id |-> r.arg, deleted |-> FALSE]),
                !.invoice_lines = @ \o InvoiceLines(r.snap, r.arg, Len(invoices) + 1)]
       IN /\ Finish(t, r, IF threw THEN "ER_DUP_ENTRY" ELSE "OK",
                    IF threw THEN 0 ELSE Len(invoices) + 1,
                    withTransaction(written, threw))
          /\ allocs' = IF threw THEN allocs
                       ELSE Append(allocs, [yyyymm |-> r.month, seq |-> nextSeq,
                                            fx_rate_id |-> 0,
                                            invoice_id |-> Len(invoices) + 1,
                                            events |-> {}])

SettlementIssue(t) ==
    \/ \E b \in 1..Len(settlement_batches) : SiStart(t, b)
    \/ SiSeq(t)
    \/ SiWrite(t)

----------------------------------------------------------------------------
(* POST /settlement-batches/:id/close *)

\* request bodies: closed_by / requested_by / approved_by, and the reason
Actors == {9}
DecisionReasons == {NoReason, "ok"}
RequestReasons == {"fix"}

BatchFound(id) == id \in DOMAIN settlement_batches /\ ~settlement_batches[id].deleted

\* a row of settlement_reopen_logs
LogRow(batchId, requestId, actorId, action, reason) ==
    [settlement_batch_id |-> batchId, request_id |-> requestId, actor_id |-> actorId,
     action |-> action, reason |-> reason, acted_at |-> Now]

\* the SELECT of the batch FOR UPDATE and the status checks
CloseStart(t, batchId, closed_by, reason) ==
    /\ CanStart(t)
    /\ nOps' = nOps + 1
    /\ UNCHANGED allocs
    /\ LET r == [NewReq("close", "write") EXCEPT !.arg = batchId,
                     !.actor = closed_by, !.reason = reason]
       IN IF ~BatchFound(batchId)
          THEN Finish(t, r, "BATCH_NOT_FOUND", 0, withTransaction(DB, FALSE))
          ELSE /\ ~BatchLockedByOther(t, batchId)
               /\ IF settlement_batches[batchId].status = "closed"
                  THEN Finish(t, r, "ALREADY_CLOSED", 0, withTransaction(DB, FALSE))
                  ELSE IF settlement_batches[batchId].status \notin {"reviewed", "open"}
                  THEN Finish(t, r, "INVALID_STATUS", 0, withTransaction(DB, FALSE))
                  ELSE /\ req' = [req EXCEPT ![t] = [r EXCEPT !.batch = batchId]]
                       /\ UNCHANGED <<tables, lastOp>>

\* UPDATE of the batch, INSERT of the 'close' log row, commit
CloseWrite(t) ==
    /\ req[t].op = "close" /\ req[t].pc = "write"
    /\ UNCHANGED <<allocs, nOps>>
    /\ LET r == req[t]
       IN Finish(t, r, "OK", r.batch,
            withTransaction(
              [DB EXCEPT
                 !.settlement_batches[r.batch] =
                     [@ EXCEPT !.status = "closed", !.closed_at = Now,
                               !.closed_by = r.actor],
                 !.settlement_reopen_logs =
                     Append(@, LogRow(r.batch, NULL, r.actor, "close", r.reason))],
              FALSE))

Close(t) ==
    \/ \E b \in 1..Len(settlement_batches), a \in Actors, x \in DecisionReasons :
          CloseStart(t, b, a, x)
    \/ CloseWrite(t)

----------------------------------------------------------------------------
(* POST /settlement-batches/:id/reopen-requests *)

\* the SELECT of the batch FOR UPDATE and the status check
ReopenStart(t, batchId, requested_by, reason) ==
    /\ CanStart(t)
    /\ nOps' = nOps + 1
    /\ UNCHANGED allocs
    /\ LET r == [NewReq("reopenRequest", "write") EXCEPT !.arg = batchId,
                     !.actor = requested_by, !.reason = reason]
       IN IF ~BatchFound(batchId)
          THEN Finish(t, r, "BATCH_NOT_FOUND", 0, withTransaction(DB, FALSE))
          ELSE /\ ~BatchLockedByOther(t, batchId)
               /\ IF settlement_batches[batchId].status # "closed"
                  THEN Finish(t, r, "INVALID_STATUS", 0, withTransaction(DB, FALSE))
                  ELSE /\ req' = [req EXCEPT ![t] = [r EXCEPT !.batch = batchId]]
                       /\ UNCHANGED <<tables, lastOp>>

\* the non-deleted requests of the batch with status requested
PendingRequests(rows, batchId) ==
    {q \in DOMAIN rows : /\ rows[q].settlement_batch_id = batchId
                         /\ rows[q].status = "requested"
                         /\ ~rows[q].deleted}

\* the plain SELECT of a pending request: the first plain read of the
\* transaction, it sees the rows committed by now
ReopenCheck(t) ==
    /\ req[t].op = "reopenRequest" /\ req[t].pc = "write" /\ req[t].found = 0
    /\ UNCHANGED <<allocs, nOps>>
    /\ LET r == req[t]
       IN IF PendingRequests(settlement_reopen_requests, r.batch) # {}
          THEN Finish(t, r, "REQUEST_EXISTS", 0, withTransaction(DB, FALSE))
          ELSE /\ req' = [req EXCEPT ![t] = [r EXCEPT !.found = NULL]]
               /\ UNCHANGED <<tables, lastOp>>

\* no pending request was found: the INSERT and the commit
ReopenWrite(t) ==
    /\ req[t].op = "reopenRequest" /\ req[t].pc = "write" /\ req[t].found = NULL
    /\ UNCHANGED <<allocs, nOps>>
    /\ LET r == req[t]
       IN Finish(t, r, "OK", Len(settlement_reopen_requests) + 1,
            withTransaction(
              [DB EXCEPT !.settlement_reopen_requests =
                  Append(@, [settlement_batch_id |-> r.batch,
                             requested_by |-> r.actor, reason |-> r.reason,
                             status |-> "requested", approved_by |-> NULL,
                             approved_at |-> NULL, deleted |-> FALSE])],
              FALSE))

ReopenRequest(t) ==
    \/ \E b \in 1..Len(settlement_batches), a \in Actors, x \in RequestReasons :
          ReopenStart(t, b, a, x)
    \/ ReopenCheck(t)
    \/ ReopenWrite(t)

----------------------------------------------------------------------------
(* POST /settlement-reopen-requests/:id/approve and /reject *)

RequestFound(id) ==
    id \in DOMAIN settlement_reopen_requests /\ ~settlement_reopen_requests[id].deleted

\* a || b || null of the handler, with null the only falsy reason sent
ReasonOr(a, b) == IF a # NoReason THEN a ELSE b

\* the SELECT of the request FOR UPDATE and the status check
DecisionStart(t, o, requestId, approved_by, reason) ==
    /\ CanStart(t)
    /\ nOps' = nOps + 1
    /\ UNCHANGED allocs
    /\ LET r == [NewReq(o, "write") EXCEPT !.arg = requestId,
                     !.actor = approved_by, !.reason = reason]
       IN IF ~RequestFound(requestId)
          THEN Finish(t, r, "REQUEST_NOT_FOUND", 0, withTransaction(DB, FALSE))
          ELSE /\ ~RequestLockedByOther(t, requestId)
               /\ IF settlement_reopen_requests[requestId].status # "requested"
                  THEN Finish(t, r, "INVALID_STATUS", 0, withTransaction(DB, FALSE))
                  ELSE /\ req' = [req EXCEPT ![t] = [r EXCEPT !.request = requestId]]
                       /\ UNCHANGED <<tables, lastOp>>

\* the request as a decision leaves it
DecideRequest(rows, requestId, status, approved_by) ==
    [rows EXCEPT ![requestId] = [@ EXCEPT !.status = status,
                                          !.approved_by = approved_by,
                                          !.approved_at = Now]]

\* the same UPDATE with closed_by left as it is
ReopenBatchKeepingClosedBy(batch) ==
    [batch EXCEPT !.status = "reviewed", !.closed_at = NULL]

\* UPDATE settlement_batches SET status = 'reviewed', closed_at = NULL,
\* closed_by = NULL
ReopenBatch(batch) ==
    [batch EXCEPT !.status = "reviewed", !.closed_at = NULL, !.closed_by = NULL]

\* approve: UPDATE of the request, UPDATE of the batch (waits for the row),
\* INSERT of the 'reopen' log row, commit
ApproveWrite(t) ==
    /\ req[t].op = "approve" /\ req[t].pc = "write"
    /\ UNCHANGED <<allocs, nOps>>
    /\ LET r == req[t]
           q == settlement_reopen_requests[r.request]
           b == q.settlement_batch_id
       IN /\ ~BatchLockedByOther(t, b)
          /\ Finish(t, r, "OK", r.request,
               withTransaction(
                 [DB EXCEPT
                    !.settlement_reopen_requests =
                        DecideRequest(@, r.request, "approved", r.actor),
                    !.settlement_batches[b] = ReopenBatch(@),
                    !.settlement_reopen_logs =
                        Append(@, LogRow(b, r.request, r.actor, "reopen",
                                         ReasonOr(r.reason, q.reason)))],
                 FALSE))

Approve(t) ==
    \/ \E q \in 1..Len(settlement_reopen_requests), a \in Actors, x \in DecisionReasons :
          DecisionStart(t, "approve", q, a, x)
    \/ ApproveWrite(t)

\* reject: UPDATE of the request, commit
RejectWrite(t) ==
    /\ req[t].op = "reject" /\ req[t].pc = "write"
    /\ UNCHANGED <<allocs, nOps>>
    /\ LET r == req[t]
       IN Finish(t, r, "OK", r.request,
            withTransaction(
              [DB EXCEPT !.settlement_reopen_requests =
                             DecideRequest(@, r.request, "rejected", r.actor)],
              FALSE))

Reject(t) ==
    \/ \E q \in 1..Len(settlement_reopen_requests), a \in Actors, x \in DecisionReasons :
          DecisionStart(t, "reject", q, a, x)
    \/ RejectWrite(t)

----------------------------------------------------------------------------
(* services/stock: the balance and the ledger.  One client, product, lot and *)
(* warehouse: a balance key (client, product, lot, warehouse, location) is   *)
(* a location here.                                                          *)

Locations == {1, 2}

\* stock received before the first request
InboundQty == 3

\* adjustAvailableQty(conn, key, delta): adds delta to available_qty of the
\* key's balance row, creating the row at zero on first use; no lower bound
adjustAvailableQty(db, location_id, delta) ==
    LET S == {i \in DOMAIN db.stock_balances :
                 db.stock_balances[i].location_id = location_id}
    IN IF S = {}
       THEN [db EXCEPT !.stock_balances =
                Append(@, [location_id |-> location_id, available_qty |-> delta])]
       ELSE [db EXCEPT !.stock_balances[CHOOSE i \in S : TRUE].available_qty = @ + delta]

\* getStockTxnId(conn, txnType, refType, refId): the active ledger entry of
\* the triple, 0 when there is none
getStockTxnId(rows, txnType, refType, refId) ==
    LET S == {i \in DOMAIN rows : /\ rows[i].txn_type = txnType
                                  /\ rows[i].ref_type = refType
                                  /\ rows[i].ref_id = refId
                                  /\ ~rows[i].deleted}
    IN IF S = {} THEN 0 ELSE CHOOSE i \in S : TRUE

\* upsertStockTxn(conn, txn): the active entry of the triple is updated in
\* place, otherwise a new entry is inserted
upsertStockTxn(db, location_id, txnType, qtyIn, qtyOut, refType, refId) ==
    LET id == getStockTxnId(db.stock_transactions, txnType, refType, refId)
    IN IF id # 0
       THEN [db EXCEPT !.stock_transactions[id] =
                [@ EXCEPT !.location_id = location_id, !.qty_in = qtyIn,
                          !.qty_out = qtyOut]]
       ELSE [db EXCEPT !.stock_transactions =
                Append(@, [txn_type |-> txnType, ref_type |-> refType,
                           ref_id |-> refId, location_id |-> location_id,
                           qty_in |-> qtyIn, qty_out |-> qtyOut, deleted |-> FALSE])]

\* the id upsertStockTxn returns
upsertedStockTxnId(db, txnType, refType, refId) ==
    LET id == getStockTxnId(db.stock_transactions, txnType, refType, refId)
    IN IF id # 0 THEN id ELSE Len(db.stock_transactions) + 1

\* softDeleteStockTxn(conn, txnType, refType, refId): tombstones the active
\* entry of the triple
softDeleteStockTxn(db, txnType, refType, refId) ==
    LET id == getStockTxnId(db.stock_transactions, txnType, refType, refId)
    IN IF id = 0 THEN db ELSE [db EXCEPT !.stock_transactions[id].deleted = TRUE]

----------------------------------------------------------------------------
(* services/billing: the service event of an outbound movement *)

\* price_policies joined to service_catalog as the seed leaves them: the
\* policies of client 1, active and non-deleted, of active services
PricePolicies ==
    << [client_id |-> 1, status |-> "active", deleted |-> FALSE,
        service_status |-> "active", service_deleted |-> FALSE,
        effective_from |-> 20260101, effective_to |-> 20260228, unit_price |-> 5,
        currency |-> "THB", billing_basis |-> "BOX"],
       [client_id |-> 1, status |-> "active", deleted |-> FALSE,
        service_status |-> "active", service_deleted |-> FALSE,
        effective_from |-> 20260201, effective_to |-> NULL, unit_price |-> 8,
        currency |-> "THB", billing_basis |-> "QTY"] >>

\* outbound_orders: the orders the items belong to, of client 1 in February,
\* of client 2, and of client 1 in January and in December
OutboundOrders ==
    << [client_id |-> 1, order_date |-> 20260210],
       [client_id |-> 2, order_date |-> 20260210],
       [client_id |-> 1, order_date |-> 20260115],
       [client_id |-> 1, order_date |-> 20251220] >>

\* the resolver that takes the lowest id among the policies with the latest
\* effective_from
resolveActivePricePolicyLowestId(clientId, orderDate) ==
    LET S == {i \in DOMAIN price_policies :
                 /\ price_policies[i].client_id = clientId
                 /\ price_policies[i].status = "active"
                 /\ ~price_policies[i].deleted
                 /\ price_policies[i].service_status = "active"
                 /\ ~price_policies[i].service_deleted
                 /\ price_policies[i].effective_from <= orderDate
                 /\ \/ price_policies[i].effective_to = NULL
                    \/ price_policies[i].effective_to >= orderDate}
    IN IF S = {} THEN 0
       ELSE CHOOSE i \in S : \A j \in S :
               \/ price_policies[j].effective_from < price_policies[i].effective_from
               \/ /\ price_policies[j].effective_from = price_policies[i].effective_from
                  /\ j >= i

\* resolveActivePricePolicy: the client's active policy of an active service
\* that is effective on the date, latest effective_from first, then highest
\* id; 0 when there is none
resolveActivePricePolicy(clientId, orderDate) ==
    LET S == {i \in DOMAIN price_policies :
                 /\ price_policies[i].client_id = clientId
                 /\ price_policies[i].status = "active"
                 /\ ~price_policies[i].deleted
                 /\ price_policies[i].service_status = "active"
                 /\ ~price_policies[i].service_deleted
                 /\ price_policies[i].effective_from <= orderDate
                 /\ \/ price_policies[i].effective_to = NULL
                    \/ price_policies[i].effective_to >= orderDate}
    IN IF S = {} THEN 0
       ELSE CHOOSE i \in S : \A j \in S :
               \/ price_policies[j].effective_from < price_policies[i].effective_from
               \/ /\ price_policies[j].effective_from = price_policies[i].effective_from
                  /\ j <= i

\* calcAmountByBasis(basis, payload).basisUnits
calcAmountByBasis(basis, qty, boxCount) ==
    IF basis = "QTY" THEN qty
    ELSE IF basis = "BOX" THEN boxCount
    ELSE IF basis = "ORDER" THEN 1
    ELSE 0

\* SELECT id FROM service_events WHERE source_type = 'outbound_shipped' AND
\* stock_transaction_id = ? LIMIT 1 (tombstoned rows included)
OutboundEventsOf(rows, stockTransactionId) ==
    {i \in DOMAIN rows : /\ rows[i].source_type = "outbound_shipped"
                         /\ rows[i].stock_transaction_id = stockTransactionId}

\* the event inserted without the look-up of an existing one
upsertOutboundServiceEventInserting(db, stockTransactionId, clientId, orderDate, qty, boxCount) ==
    LET policy == resolveActivePricePolicy(clientId, orderDate)
    IN IF policy = 0 THEN db
       ELSE LET p == price_policies[policy]
                amount == p.unit_price * calcAmountByBasis(p.billing_basis, qty, boxCount)
                row == [client_id |-> clientId, event_date |-> Today,
                        source_type |-> "outbound_shipped",
                        stock_transaction_id |-> stockTransactionId, qty |-> qty,
                        box_count |-> boxCount, unit_price |-> p.unit_price,
                        amount |-> amount, currency |-> p.currency, deleted |-> FALSE]
            IN [db EXCEPT !.service_events = Append(@, row)]

\* the upsert that records an event at price zero when no policy is active
upsertOutboundServiceEventUnpriced(db, stockTransactionId, clientId, orderDate, qty, boxCount) ==
    IF resolveActivePricePolicy(clientId, orderDate) # 0
    THEN upsertOutboundServiceEventInserting(db, stockTransactionId, clientId,
                                             orderDate, qty, boxCount)
    ELSE [db EXCEPT !.service_events =
            Append(@, [client_id |-> clientId, event_date |-> Today,
                       source_type |-> "outbound_shipped",
                       stock_transaction_id |-> stockTransactionId, qty |-> qty,
                       box_count |-> boxCount, unit_price |-> 0, amount |-> 0,
                       currency |-> "THB", deleted |-> FALSE])]

\* upsertOutboundServiceEvent: nothing without an active price policy; else
\* the event of the stock transaction is inserted, or updated with its
\* deletion marker cleared
upsertOutboundServiceEvent(db, stockTransactionId, clientId, orderDate, qty, boxCount) ==
    LET policy == resolveActivePricePolicy(clientId, orderDate)
        existing == OutboundEventsOf(db.service_events, stockTransactionId)
    IN IF policy = 0 THEN db
       ELSE LET p == price_policies[policy]
                amount == p.unit_price * calcAmountByBasis(p.billing_basis, qty, boxCount)
                row == [client_id |-> clientId, event_date |-> Today,
                        source_type |-> "outbound_shipped",
                        stock_transaction_id |-> stockTransactionId, qty |-> qty,
                        box_count |-> boxCount, unit_price |-> p.unit_price,
                        amount |-> amount, currency |-> p.currency, deleted |-> FALSE]
            IN IF existing = {}
               THEN [db EXCEPT !.service_events = Append(@, row)]
               ELSE [db EXCEPT !.service_events[CHOOSE i \in existing : TRUE] = row]

\* softDeleteOutboundServiceEvent: tombstones the events of the transaction
softDeleteOutboundServiceEvent(db, stockTransactionId) ==
    [db EXCEPT !.service_events =
        [i \in DOMAIN @ |->
            IF i \in OutboundEventsOf(@, stockTransactionId)
            THEN [@[i] EXCEPT !.deleted = TRUE] ELSE @[i]]]

----------------------------------------------------------------------------
(* POST, PUT and DELETE /outbound-items *)

\* request bodies: the order, the location, qty and box_count
OutboundPayloads ==
    { [NoItem EXCEPT !.order_id = 1, !.location_id = l, !.qty = q, !.box_count = 1] :
          l \in Locations, q \in {2, 3} }
    \cup
    { [NoItem EXCEPT !.order_id = 2, !.location_id = 1, !.qty = q, !.box_count = 1] :
          q \in {2, 3} }
    \cup
    { [NoItem EXCEPT !.order_id = 5, !.location_id = 1, !.qty = 2, !.box_count = 1] }

\* getOutboundOrderContext: the order, if there is one
OrderFound(order_id) == order_id \in DOMAIN OutboundOrders

\* the row of outbound_items a request body gives
OutboundRow(item) ==
    [outbound_order_id |-> item.order_id, location_id |-> item.location_id,
     qty |-> item.qty, box_count |-> item.box_count, deleted |-> FALSE]

\* the movement of an outbound item: the balance of its key goes down by
\* qty, the ledger entry of the item and its service event are upserted
ShipOutbound(db, itemId, item) ==
    LET d1 == adjustAvailableQty(db, item.location_id, 0 - item.qty)
        stockTxnId == upsertedStockTxnId(d1, "outbound_ship", "outbound_item", itemId)
        d2 == upsertStockTxn(d1, item.location_id, "outbound_ship", 0, item.qty,
                             "outbound_item", itemId)
    IN upsertOutboundServiceEvent(d2, stockTxnId,
                                  OutboundOrders[item.order_id].client_id,
                                  OutboundOrders[item.order_id].order_date,
                                  item.qty, item.box_count)

\* POST: the INSERT of the item and its movement, in one transaction that
\* reads no row another request can change
PostOutbound(item) ==
    /\ nOps < MaxOps
    /\ nOps' = nOps + 1
    /\ UNCHANGED <<req, allocs>>
    /\ LET r == NewReq("postOutbound", "idle")
           itemId == Len(outbound_items) + 1
           threw == ~OrderFound(item.order_id)
           written == IF threw THEN DB
                      ELSE ShipOutbound([DB EXCEPT !.outbound_items =
                                            Append(@, OutboundRow(item))],
                                        itemId, item)
       IN /\ Store(withTransaction(written, threw))
          /\ lastOp' = Answer(r, IF threw THEN "INVALID_ORDER" ELSE "OK",
                              IF threw THEN 0 ELSE itemId)

\* getOutboundItemWithContext: the non-deleted item
OutboundItemFound(id) == id \in DOMAIN outbound_items /\ ~outbound_items[id].deleted

\* PUT, the reads: the item as it is now (a plain SELECT) and the new order
PutOutboundStart(t, id, item) ==
    /\ CanStart(t)
    /\ nOps' = nOps + 1
    /\ UNCHANGED allocs
    /\ LET r == [NewReq("putOutbound", "write") EXCEPT !.arg = id, !.item = item]
       IN IF ~OutboundItemFound(id)
          THEN Finish(t, r, "NOT_FOUND", 0, withTransaction(DB, TRUE))
          ELSE IF ~OrderFound(item.order_id)
          THEN Finish(t, r, "INVALID_ORDER", 0, withTransaction(DB, TRUE))
          ELSE /\ req' = [req EXCEPT ![t] =
                            [r EXCEPT !.prev =
                                [NoItem EXCEPT
                                    !.order_id = outbound_items[id].outbound_order_id,
                                    !.location_id = outbound_items[id].location_id,
                                    !.qty = outbound_items[id].qty,
                                    !.box_count = outbound_items[id].box_count]]]
               /\ UNCHANGED <<tables, lastOp>>

\* PUT, the writes: the UPDATE of the item (if it is still there), the
\* quantity read before goes back to its key, the new movement, the commit
PutOutboundWrite(t) ==
    /\ req[t].op = "putOutbound" /\ req[t].pc = "write"
    /\ UNCHANGED <<allocs, nOps>>
    /\ LET r == req[t]
           d1 == IF outbound_items[r.arg].deleted THEN DB
                 ELSE [DB EXCEPT !.outbound_items[r.arg] = OutboundRow(r.item)]
           d2 == adjustAvailableQty(d1, r.prev.location_id, r.prev.qty)
       IN Finish(t, r, "OK", r.arg,
                 withTransaction(ShipOutbound(d2, r.arg, r.item), FALSE))

\* DELETE, the read of the item
DeleteOutboundStart(t, id) ==
    /\ CanStart(t)
    /\ nOps' = nOps + 1
    /\ UNCHANGED allocs
    /\ LET r == [NewReq("deleteOutbound", "write") EXCEPT !.arg = id]
       IN IF ~OutboundItemFound(id)
          THEN Finish(t, r, "NOT_FOUND", 0, withTransaction(DB, TRUE))
          ELSE /\ req' = [req EXCEPT ![t] =
                            [r EXCEPT !.prev =
                                [NoItem EXCEPT
                                    !.location_id = outbound_items[id].location_id,
                                    !.qty = outbound_items[id].qty]]]
               /\ UNCHANGED <<tables, lastOp>>

\* the delete that tombstones item, event and ledger entry and leaves the
\* balance as it is
DeleteOutboundWriteNoRestore(t) ==
    /\ req[t].op = "deleteOutbound" /\ req[t].pc = "write"
    /\ UNCHANGED <<allocs, nOps>>
    /\ LET r == req[t]
           stockTxnId == getStockTxnId(stock_transactions, "outbound_ship",
                                       "outbound_item", r.arg)
           d2 == [DB EXCEPT !.outbound_items[r.arg].deleted = TRUE]
           d3 == IF stockTxnId # 0 THEN softDeleteOutboundServiceEvent(d2, stockTxnId)
                 ELSE d2
       IN Finish(t, r, "OK", r.arg,
                 withTransaction(
                    softDeleteStockTxn(d3, "outbound_ship", "outbound_item", r.arg),
                    FALSE))

\* DELETE, the writes: the quantity read before goes back to its key, the
\* item, its service event and its ledger entry are tombstoned
DeleteOutboundWrite(t) ==
    /\ req[t].op = "deleteOutbound" /\ req[t].pc = "write"
    /\ UNCHANGED <<allocs, nOps>>
    /\ LET r == req[t]
           d1 == adjustAvailableQty(DB, r.prev.location_id, r.prev.qty)
           stockTxnId == getStockTxnId(d1.stock_transactions, "outbound_ship",
                                       "outbound_item", r.arg)
           d2 == [d1 EXCEPT !.outbound_items[r.arg].deleted = TRUE]
           d3 == IF stockTxnId # 0 THEN softDeleteOutboundServiceEvent(d2, stockTxnId)
                 ELSE d2
       IN Finish(t, r, "OK", r.arg,
                 withTransaction(
                    softDeleteStockTxn(d3, "outbound_ship", "outbound_item", r.arg),
                    FALSE))

OutboundItems(t) ==
    \/ \E item \in OutboundPayloads : PostOutbound(item)
    \/ \E id \in 1..Len(outbound_items), item \in OutboundPayloads :
          PutOutboundStart(t, id, item)
    \/ PutOutboundWrite(t)
    \/ \E id \in 1..Len(outbound_items) : DeleteOutboundStart(t, id)
    \/ DeleteOutboundWrite(t)

----------------------------------------------------------------------------
(* POST, PUT and DELETE /return-items *)

\* return_orders: the order the return items belong to
ReturnOrders == << [order_date |-> 20260211] >>

\* request bodies: location, qty_received (qty), qty_restocked, qty_disposed
ReturnPayloads ==
    { [NoItem EXCEPT !.order_id = 1, !.location_id = l, !.qty = x[1],
                     !.qty_restocked = x[2], !.qty_disposed = x[3]] :
          l \in Locations, x \in {<<2, 2, 0>>, <<2, 1, 1>>, <<1, 0, 1>>, <<1, 1, 1>>} }

\* validateQtyConsistency(body)
validateQtyConsistency(item) == item.qty_restocked + item.qty_disposed <= item.qty

\* getReturnOrderContext: the order, if there is one
ReturnOrderFound(order_id) == order_id \in DOMAIN ReturnOrders

\* the row of return_items a request body gives
ReturnRow(item) ==
    [return_order_id |-> item.order_id, location_id |-> item.location_id,
     qty_received |-> item.qty, qty_restocked |-> item.qty_restocked,
     qty_disposed |-> item.qty_disposed, deleted |-> FALSE]

\* POST, the movements: a restocked quantity goes to the balance and the
\* ledger, a disposed quantity to the ledger only
RestockReturn(db, itemId, item) ==
    LET d1 == IF item.qty_restocked > 0
              THEN upsertStockTxn(
                      adjustAvailableQty(db, item.location_id, item.qty_restocked),
                      item.location_id, "return_restock", item.qty_restocked, 0,
                      "return_item", itemId)
              ELSE db
    IN IF item.qty_disposed > 0
       THEN upsertStockTxn(d1, item.location_id, "return_dispose", 0,
                           item.qty_disposed, "return_item", itemId)
       ELSE d1

\* POST: the check of the split, then one transaction that reads no row
\* another request can change
PostReturn(item) ==
    /\ nOps < MaxOps
    /\ nOps' = nOps + 1
    /\ UNCHANGED <<req, allocs>>
    /\ LET r == NewReq("postReturn", "idle")
           itemId == Len(return_items) + 1
       IN IF ~validateQtyConsistency(item)
          THEN /\ lastOp' = Answer(r, "INVALID_QTY_SPLIT", 0)
               /\ UNCHANGED tables
          ELSE LET threw == ~ReturnOrderFound(item.order_id)
                   written == RestockReturn([DB EXCEPT !.return_items =
                                                Append(@, ReturnRow(item))],
                                            itemId, item)
               IN /\ Store(withTransaction(written, threw))
                  /\ lastOp' = Answer(r, IF threw THEN "INVALID_ORDER" ELSE "OK",
                                      IF threw THEN 0 ELSE itemId)

\* getReturnItemWithContext: the non-deleted item
ReturnItemFound(id) == id \in DOMAIN return_items /\ ~return_items[id].deleted

\* the item as a PUT or DELETE read it
ReturnItemRead(id) ==
    [NoItem EXCEPT !.order_id = return_items[id].return_order_id,
                   !.location_id = return_items[id].location_id,
                   !.qty = return_items[id].qty_received,
                   !.qty_restocked = return_items[id].qty_restocked,
                   !.qty_disposed = return_items[id].qty_disposed]

\* PUT, the check of the split and the reads
PutReturnStart(t, id, item) ==
    /\ CanStart(t)
    /\ nOps' = nOps + 1
    /\ UNCHANGED allocs
    /\ LET r == [NewReq("putReturn", "write") EXCEPT !.arg = id, !.item = item]
       IN IF ~validateQtyConsistency(item)
          THEN Finish(t, r, "INVALID_QTY_SPLIT", 0, DB)
          ELSE IF ~ReturnItemFound(id)
          THEN Finish(t, r, "NOT_FOUND", 0, withTransaction(DB, TRUE))
          ELSE IF ~ReturnOrderFound(item.order_id)
          THEN Finish(t, r, "INVALID_ORDER", 0, withTransaction(DB, TRUE))
          ELSE /\ req' = [req EXCEPT ![t] = [r EXCEPT !.prev = ReturnItemRead(id)]]
               /\ UNCHANGED <<tables, lastOp>>

\* PUT, the writes: the restocked quantity read before leaves its key, the
\* UPDATE of the item (if it is still there), the new restock and its ledger
\* entry (tombstoned when zero), the dispose entry (tombstoned when zero)
PutReturnWrite(t) ==
    /\ req[t].op = "putReturn" /\ req[t].pc = "write"
    /\ UNCHANGED <<allocs, nOps>>
    /\ LET r == req[t]
           d1 == IF r.prev.qty_restocked > 0
                 THEN adjustAvailableQty(DB, r.prev.location_id, 0 - r.prev.qty_restocked)
                 ELSE DB
           d2 == IF return_items[r.arg].deleted THEN d1
                 ELSE [d1 EXCEPT !.return_items[r.arg] = ReturnRow(r.item)]
           d3 == IF r.item.qty_restocked > 0
                 THEN upsertStockTxn(
                         adjustAvailableQty(d2, r.item.location_id, r.item.qty_restocked),
                         r.item.location_id, "return_restock", r.item.qty_restocked, 0,
                         "return_item", r.arg)
                 ELSE softDeleteStockTxn(d2, "return_restock", "return_item", r.arg)
           d4 == IF r.item.qty_disposed > 0
                 THEN upsertStockTxn(d3, r.item.location_id, "return_dispose", 0,
                                     r.item.qty_disposed, "return_item", r.arg)
                 ELSE softDeleteStockTxn(d3, "return_dispose", "return_item", r.arg)
       IN Finish(t, r, "OK", r.arg, withTransaction(d4, FALSE))

\* DELETE, the read of the item
DeleteReturnStart(t, id) ==
    /\ CanStart(t)
    /\ nOps' = nOps + 1
    /\ UNCHANGED allocs
    /\ LET r == [NewReq("deleteReturn", "write") EXCEPT !.arg = id]
       IN IF ~ReturnItemFound(id)
          THEN Finish(t, r, "NOT_FOUND", 0, withTransaction(DB, TRUE))
          ELSE /\ req' = [req EXCEPT ![t] = [r EXCEPT !.prev = ReturnItemRead(id)]]
               /\ UNCHANGED <<tables, lastOp>>

\* DELETE, the writes: the restocked quantity read before leaves its key,
\* the item and both its ledger entries are tombstoned
DeleteReturnWrite(t) ==
    /\ req[t].op = "deleteReturn" /\ req[t].pc = "write"
    /\ UNCHANGED <<allocs, nOps>>
    /\ LET r == req[t]
           d1 == IF r.prev.qty_restocked > 0
                 THEN adjustAvailableQty(DB, r.prev.location_id, 0 - r.prev.qty_restocked)
                 ELSE DB
           d2 == [d1 EXCEPT !.return_items[r.arg].deleted = TRUE]
           d3 == softDeleteStockTxn(d2, "return_restock", "return_item", r.arg)
       IN Finish(t, r, "OK", r.arg,
                 withTransaction(
                    softDeleteStockTxn(d3, "return_dispose", "return_item", r.arg),
                    FALSE))

ReturnItems(t) ==
    \/ \E item \in ReturnPayloads : PostReturn(item)
    \/ \E id \in 1..Len(return_items), item \in ReturnPayloads :
          PutReturnStart(t, id, item)
    \/ PutReturnWrite(t)
    \/ \E id \in 1..Len(return_items) : DeleteReturnStart(t, id)
    \/ DeleteReturnWrite(t)

----------------------------------------------------------------------------
(* Exchange-rate settings: POST, PUT and DELETE /billing/settings/exchange-rates *)
(* The handlers use the pool directly: every statement commits by itself. *)

RatePayloads ==
    { [rate_date |-> 20260220, rate |-> 50, locked |-> 0, status |-> "active"],
      [rate_date |-> 20260225, rate |-> 45, locked |-> 1, status |-> "active"] }

\* getExchangeRateUsageCount: non-deleted month invoices whose stored fx rate
\* equals the rate of the row
getExchangeRateUsageCount(exchangeRateId) ==
    IF exchangeRateId \notin DOMAIN exchange_rates THEN 0
    ELSE Cardinality({i \in DOMAIN invoices :
            /\ ~invoices[i].deleted
            /\ invoices[i].invoice_month # NULL
            /\ invoices[i].fx_rate_thbkrw = exchange_rates[exchangeRateId].rate})

RateFound(id) == id \in DOMAIN exchange_rates /\ ~exchange_rates[id].deleted

\* an UPDATE statement waits while a transaction holds the row
RateRowFree(id) == \A t \in Slots : id \notin RateLockedBy(t)

\* a pool request answers; only a write changes the table
RateAnswer(t, c, rows) ==
    /\ req' = [req EXCEPT ![t] = Idle]
    /\ lastOp' = Answer(req[t], c, req[t].arg)
    /\ exchange_rates' = rows
    /\ UNCHANGED <<billing_events, invoices, invoice_items, invoice_sequences,
                   settlement_batches, settlement, stock, allocs, nOps>>

PostRate(payload) ==
    /\ nOps < MaxOps
    /\ nOps' = nOps + 1
    /\ IF uq_exchange_rates(exchange_rates, payload.rate_date, 0)
       THEN /\ lastOp' = Answer([NewReq("postRate", "idle") EXCEPT !.payload = payload],
                                "ER_DUP_ENTRY", 0)
            /\ UNCHANGED exchange_rates
       ELSE /\ lastOp' = Answer([NewReq("postRate", "idle") EXCEPT !.payload = payload],
                                "OK", Len(exchange_rates) + 1)
            /\ exchange_rates' = Append(exchange_rates,
                  [rate_date |-> payload.rate_date, rate |-> payload.rate,
                   locked |-> payload.locked, status |-> payload.status,
                   deleted |-> FALSE])
    /\ UNCHANGED <<billing_events, invoices, invoice_items, invoice_sequences,
                   settlement_batches, settlement, stock, req, allocs>>

\* SELECT id, locked ... WHERE id = ? AND deleted_at IS NULL
RateRead(t, o, id, payload) ==
    /\ CanStart(t)
    /\ nOps' = nOps + 1
    /\ LET r == [NewReq(o, "usage") EXCEPT !.arg = id, !.payload = payload]
       IN IF ~RateFound(id)
          THEN /\ req' = req
               /\ lastOp' = Answer(r, "NOT_FOUND", id)
               /\ UNCHANGED <<tables, allocs>>
          ELSE /\ req' = [req EXCEPT ![t] = [r EXCEPT !.locked = exchange_rates[id].locked]]
               /\ UNCHANGED <<tables, allocs, lastOp>>

\* the usage count and the check of locked and usage
RateCheck(t, o) ==
    /\ req[t].op = o /\ req[t].pc = "usage"
    /\ UNCHANGED nOps
    /\ IF req[t].locked = 1 \/ getExchangeRateUsageCount(req[t].arg) > 0
       THEN RateAnswer(t, "EXCHANGE_RATE_LOCKED", exchange_rates)
       ELSE /\ req' = [req EXCEPT ![t] = [req[t] EXCEPT !.pc = "write"]]
            /\ UNCHANGED <<tables, allocs, lastOp>>

\* UPDATE exchange_rates SET rate_date, rate, source, locked, status
\* WHERE id = ? AND deleted_at IS NULL
PutRateWrite(t) ==
    /\ req[t].op = "putRate" /\ req[t].pc = "write"
    /\ UNCHANGED nOps
    /\ RateRowFree(req[t].arg)
    /\ LET id == req[t].arg
           payload == req[t].payload
       IN IF ~RateFound(id)
          THEN RateAnswer(t, "NOT_FOUND", exchange_rates)
          ELSE IF uq_exchange_rates(exchange_rates, payload.rate_date, id)
          THEN RateAnswer(t, "ER_DUP_ENTRY", exchange_rates)
          ELSE RateAnswer(t, "OK",
                  [exchange_rates EXCEPT ![id] =
                     [@ EXCEPT !.rate_date = payload.rate_date, !.rate = payload.rate,
                               !.locked = payload.locked, !.status = payload.status]])

\* UPDATE exchange_rates SET deleted_at = NOW() WHERE id = ? AND deleted_at IS NULL
DeleteRateWrite(t) ==
    /\ req[t].op = "deleteRate" /\ req[t].pc = "write"
    /\ UNCHANGED nOps
    /\ RateRowFree(req[t].arg)
    /\ RateAnswer(t, "OK",
          [exchange_rates EXCEPT ![req[t].arg].deleted = TRUE])

PutRate(t) ==
    \/ \E id \in 1..Len(exchange_rates), p \in RatePayloads : RateRead(t, "putRate", id, p)
    \/ RateCheck(t, "putRate")
    \/ PutRateWrite(t)

DeleteRate(t) ==
    \/ \E id \in 1..Len(exchange_rates) : RateRead(t, "deleteRate", id, NoPayload)
    \/ RateCheck(t, "deleteRate")
    \/ DeleteRateWrite(t)

----------------------------------------------------------------------------
(* Initial state: the seeded database, no request in flight *)

SeedRate == [rate_date |-> 20260220, rate |-> 40, locked |-> 0,
             status |-> "active", deleted |-> FALSE]

SeedEvents ==
    << NewBillingEvent([service_code |-> "TH_SHIPPING", event_date |-> 20260203,
                        qty |-> 1, pricing_policy |-> "THB_BASED",
                        unit_price_thb |-> 120, amount_thb |-> 120,
                        unit_price_krw |-> NULL, amount_krw |-> NULL]),
       NewBillingEvent([service_code |-> "OUTBOUND_FEE", event_date |-> 20260207,
                        qty |-> 3, pricing_policy |-> "KRW_FIXED",
                        unit_price_thb |-> NULL, amount_thb |-> NULL,
                        unit_price_krw |-> 3500, amount_krw |-> 10500]) >>

\* a reviewed settlement batch of the seeded month, as settlement generate
\* leaves it for SeedServiceEvents at the seeded rate
SeedBatch == [billing_month |-> 202602, exchange_rate_id |-> 1, status |-> "reviewed",
              total_krw |-> 15300, closed_at |-> NULL, closed_by |-> NULL,
              deleted |-> FALSE]

SeedLines == SettlementLines(SeedServiceEvents, 1, ServiceEventsIn(SeedServiceEvents, 202602))

\* the stock received before the first request, in the balance and the ledger
InitLedger ==
    /\ service_events = SeedServiceEvents
    /\ outbound_items = <<>>
    /\ return_items = <<>>
    /\ stock_balances = <<[location_id |-> 1, available_qty |-> InboundQty]>>
    /\ stock_transactions =
          <<[txn_type |-> "inbound_receive", ref_type |-> "inbound_item", ref_id |-> 1,
             location_id |-> 1, qty_in |-> InboundQty, qty_out |-> 0,
             deleted |-> FALSE]>>

InitStock ==
    /\ price_policies = PricePolicies
    /\ InitLedger

NoOp == Answer(Idle, "", 0)

InitRequests ==
    /\ req = [t \in Slots |-> Idle]
    /\ allocs = <<>>
    /\ lastOp = NoOp
    /\ nOps = 0

Init ==
    /\ exchange_rates = <<SeedRate>>
    /\ billing_events = SeedEvents
    /\ invoices = <<>>
    /\ invoice_items = <<>>
    /\ invoice_sequences = <<>>
    /\ settlement_batches = <<SeedBatch>>
    /\ settlement_lines = SeedLines
    /\ settlement_reopen_requests = <<>>
    /\ settlement_reopen_logs = <<>>
    /\ invoice_lines = <<>>
    /\ InitStock
    /\ InitRequests

Next ==
    \/ \E t \in Slots : Generate(t)
    \/ \E p \in EventPayloads : PostEvent(p)
    \/ \E id \in 1..Len(invoices) : IssueInvoice(id)
    \/ \E ids \in SUBSET (1..Len(billing_events)) \ {{}} : MarkPending(ids)
    \/ \E t \in Slots : DuplicateAdmin(t)
    \/ \E t \in Slots : SettlementIssue(t)
    \/ \E p \in RatePayloads : PostRate(p)
    \/ \E t \in Slots : PutRate(t)
    \/ \E t \in Slots : DeleteRate(t)
    \/ \E t \in Slots : Issue(t)
    \/ \E t \in Slots : MarkPaid(t)
    \/ \E t \in Slots : SettlementGenerate(t)
    \/ \E t \in Slots : Close(t)
    \/ \E t \in Slots : ReopenRequest(t)
    \/ \E t \in Slots : Approve(t)
    \/ \E t \in Slots : Reject(t)
    \/ \E t \in Slots : OutboundItems(t)
    \/ \E t \in Slots : ReturnItems(t)

Spec == Init /\ [][Next]_vars

\* the invoice generator with the operations on its events and invoices
NextBilling ==
    \/ \E t \in Slots : Generate(t)
    \/ \E p \in EventPayloads : PostEvent(p)
    \/ \E id \in 1..Len(invoices) : IssueInvoice(id)
    \/ \E ids \in SUBSET (1..Len(billing_events)) \ {{}} : MarkPending(ids)
    \/ \E t \in Slots : DuplicateAdmin(t)

SpecBilling == Init /\ [][NextBilling]_vars

\* generate, issue and mark-pending, with new events: every invoice is one
\* that generate created
NextDrafts ==
    \/ \E t \in Slots : Generate(t)
    \/ \E p \in EventPayloads : PostEvent(p)
    \/ \E id \in 1..Len(invoices) : IssueInvoice(id)
    \/ \E ids \in SUBSET (1..Len(billing_events)) \ {{}} : MarkPending(ids)

SpecDrafts == Init /\ [][NextDrafts]_vars

\* generate, with and without regeneration, beside mark-pending lock by lock
NextUnmark ==
    \/ \E t \in Slots : Generate(t)
    \/ \E t \in Slots : MarkPendingLocking(t)
    \/ \E t \in Slots : DeadlockVictim(t)

SpecUnmark == Init /\ [][NextUnmark]_vars

\* concurrent generate requests without regeneration, and new events
NextGenerate ==
    \/ \E t \in Slots, m \in Months, d \in InvoiceDates : GenStart(t, m, d, 0)
    \/ \E t \in Slots : GenFx(t)
    \/ \E t \in Slots : GenEvents(t)
    \/ \E t \in Slots : GenSeq(t)
    \/ \E t \in Slots : GenWrite(t)
    \/ \E p \in EventPayloads : PostEvent(p)

SpecGenerate == Init /\ [][NextGenerate]_vars

\* the three callers of the sequence counter
NextSequence ==
    \/ \E t \in Slots : Generate(t)
    \/ \E id \in 1..Len(invoices) : IssueInvoice(id)
    \/ \E t \in Slots : DuplicateAdmin(t)
    \/ \E t \in Slots : SettlementIssue(t)

SpecSequence == Init /\ [][NextSequence]_vars

\* the exchange-rate settings beside the invoice generator
NextRates ==
    \/ \E t \in Slots : Generate(t)
    \/ \E p \in RatePayloads : PostRate(p)
    \/ \E t \in Slots : PutRate(t)
    \/ \E t \in Slots : DeleteRate(t)

SpecRates == Init /\ [][NextRates]_vars

\* the invoice life cycle: generate, issue, mark-paid, duplicate-admin and
\* mark-pending
NextStatus ==
    \/ \E t \in Slots : Generate(t)
    \/ \E t \in Slots : Issue(t)
    \/ \E t \in Slots : MarkPaid(t)
    \/ \E t \in Slots : DuplicateAdmin(t)
    \/ \E ids \in SUBSET (1..Len(billing_events)) \ {{}} : MarkPending(ids)

SpecStatus == Init /\ [][NextStatus]_vars

\* the settlement batch life cycle: generate, issue of its invoice, close,
\* reopen request, approve and reject
NextSettlement ==
    \/ \E t \in Slots : SettlementGenerate(t)
    \/ \E t \in Slots : SettlementIssue(t)
    \/ \E t \in Slots : Close(t)
    \/ \E t \in Slots : ReopenRequest(t)
    \/ \E t \in Slots : Approve(t)
    \/ \E t \in Slots : Reject(t)

SpecSettlement == Init /\ [][NextSettlement]_vars

\* the stock ledger: outbound items and return items
NextStock ==
    \/ \E t \in Slots : OutboundItems(t)
    \/ \E t \in Slots : ReturnItems(t)

SpecStock == Init /\ [][NextStock]_vars

\* outbound items and return items, one request at a time
NextStockSeq == OutboundItems(1) \/ ReturnItems(1)

SpecStockSeq == Init /\ [][NextStockSeq]_vars

\* the outbound items alone
NextOutbound == \E t \in Slots : OutboundItems(t)

SpecOutbound == Init /\ [][NextOutbound]_vars

\* the three ways an invoice is created, beside the outbound items whose
\* service events a settlement batch totals
NextTotals ==
    \/ \E t \in Slots : Generate(t)
    \/ \E t \in Slots : DuplicateAdmin(t)
    \/ \E t \in Slots : SettlementGenerate(t)
    \/ \E t \in Slots : SettlementIssue(t)
    \/ \E item \in OutboundPayloads : PostOutbound(item)

SpecTotals == Init /\ [][NextTotals]_vars

\* settlement generate beside the outbound items that create, change and
\* tombstone service events
NextSettleEvents ==
    \/ \E t \in Slots : SettlementGenerate(t)
    \/ \E t \in Slots : OutboundItems(t)

SpecSettleEvents == Init /\ [][NextSettleEvents]_vars

\* one generate request at a time over event tables and rates drawn from
\* bounded sets
CalcThbAmounts == {120, 3, 47}
CalcKrwAmounts == {10500, 3550}
CalcFxRates == {40, 33}

CalcPayloads ==
    { [service_code |-> c, event_date |-> 20260203, qty |-> 2,
       pricing_policy |-> "THB_BASED", unit_price_thb |-> NULL, amount_thb |-> a,
       unit_price_krw |-> NULL, amount_krw |-> NULL] :
         c \in {"TH_SHIPPING", "TH_BOX"}, a \in CalcThbAmounts }
    \cup
    { [service_code |-> "OUTBOUND_FEE", event_date |-> 20260207, qty |-> 0,
       pricing_policy |-> "KRW_FIXED", unit_price_thb |-> NULL, amount_thb |-> NULL,
       unit_price_krw |-> NULL, amount_krw |-> a] : a \in CalcKrwAmounts }

InitCalc ==
    /\ \E fx \in CalcFxRates : exchange_rates = <<[SeedRate EXCEPT !.rate = fx]>>
    /\ \E n \in 1..MaxEvents : \E ps \in [1..n -> CalcPayloads] :
          billing_events = [k \in 1..n |-> NewBillingEvent(ps[k])]
    /\ invoices = <<>>
    /\ invoice_items = <<>>
    /\ invoice_sequences = <<>>
    /\ settlement_batches = <<>>
    /\ settlement_lines = <<>>
    /\ settlement_reopen_requests = <<>>
    /\ settlement_reopen_logs = <<>>
    /\ invoice_lines = <<>>
    /\ InitStock
    /\ InitRequests

\* the price resolver and the amount of the event of a first outbound item,
\* for every table of at most two price policies
PolicyFlaws ==
    {"none", "inactive", "deleted", "other_client", "service_inactive",
     "service_deleted"}

PolicyRows(unit_price) ==
    { [client_id |-> IF flaw = "other_client" THEN 2 ELSE 1,
       status |-> IF flaw = "inactive" THEN "inactive" ELSE "active",
       deleted |-> (flaw = "deleted"),
       service_status |-> IF flaw = "service_inactive" THEN "inactive" ELSE "active",
       service_deleted |-> (flaw = "service_deleted"),
       effective_from |-> from, effective_to |-> to, unit_price |-> unit_price,
       currency |-> "THB", billing_basis |-> basis] :
          flaw \in PolicyFlaws,
          from \in {20260101, 20260115, 20260201},
          to \in {NULL, 20260115},
          basis \in {"QTY", "BOX", "ORDER", "MANUAL"} }

PolicyTables ==
    {<<>>} \cup {<<a>> : a \in PolicyRows(5)}
           \cup {<<a, b>> : a \in PolicyRows(5), b \in PolicyRows(8)}

PricePayloads ==
    { [NoItem EXCEPT !.order_id = o, !.location_id = 1, !.qty = 2, !.box_count = 3] :
          o \in DOMAIN OutboundOrders }

InitPrice ==
    /\ exchange_rates = <<SeedRate>>
    /\ billing_events = SeedEvents
    /\ invoices = <<>>
    /\ invoice_items = <<>>
    /\ invoice_sequences = <<>>
    /\ settlement_batches = <<SeedBatch>>
    /\ settlement_lines = SeedLines
    /\ settlement_reopen_requests = <<>>
    /\ settlement_reopen_logs = <<>>
    /\ invoice_lines = <<>>
    /\ price_policies \in PolicyTables
    /\ InitLedger
    /\ InitRequests

NextPrice == nOps = 0 /\ \E item \in PricePayloads : PostOutbound(item)

SpecPrice == InitPrice /\ [][NextPrice]_vars

NextCalc ==
    \/ \E g \in {0, 1} : GenStart(1, 202602, 20260228, g)
    \/ GenRegen(1)
    \/ GenFx(1)
    \/ GenEvents(1)
    \/ GenSeq(1)
    \/ GenWrite(1)

SpecCalc == InitCalc /\ [][NextCalc]_vars

----------------------------------------------------------------------------
(* Vocabulary of the properties *)

AllIdle == \A t \in Slots : Free(t)

\* a step in which a request is answered
Completes == nDone' = nDone + 1

GenerateFailures == {"INVOICE_ALREADY_ISSUED", "FX_NOT_FOUND", "NO_PENDING_EVENTS"}

\* the non-deleted invoices of a month
MonthInvoices(invoice_month) ==
    {i \in DOMAIN invoices :
        invoices[i].invoice_month = invoice_month /\ ~invoices[i].deleted}

IsMultipleOf100(x) == x % 100 = 0

RECURSIVE SumItemAmounts(_, _)
\* the sum of amount_krw over a set of invoice item ids
SumItemAmounts(items, ids) ==
    IF ids = {} THEN 0
    ELSE LET k == CHOOSE x \in ids : TRUE
         IN items[k].amount_krw + SumItemAmounts(items, ids \ {k})

\* the active per-service-code items of an invoice (the VAT line left out)
ServiceItemsOf(items, invoiceId) ==
    {k \in DOMAIN items : /\ items[k].invoice_id = invoiceId
                          /\ ~items[k].deleted
                          /\ items[k].service_code # "VAT_7"}

----------------------------------------------------------------------------
(* C1 *)

\* the step starts a generate request for the month of the last answer with
\* regenerate_draft = 0
StartsSameGenerate ==
    /\ nOps' = nOps + 1
    /\ \/ \E t \in Slots : /\ req'[t].op = "generate"
                           /\ req'[t].month = lastOp.month
                           /\ req'[t].regen = 0
       \/ /\ AllIdle'
          /\ lastOp'.op = "generate"
          /\ lastOp'.month = lastOp.month
          /\ lastOp'.regen = 0

\* C1: when the request answered last was a successful generate and nothing
\* is in flight, a generate for the same month with regenerate_draft = 0 is
\* answered at once with the id of the same invoice and changes no table and
\* allocates no sequence number.
C1_GenerateIdempotent ==
    [][ ( /\ AllIdle
          /\ lastOp.op = "generate"
          /\ lastOp.code \in {"OK", "REUSED"}
          /\ StartsSameGenerate )
        => ( /\ AllIdle'
             /\ lastOp'.code = "REUSED"
             /\ lastOp'.rid = lastOp.rid
             /\ UNCHANGED <<tables, allocs>> ) ]_vars

\* two requests so far: a generate that created the draft, then a generate
\* without regeneration that returned it
C1_Witness ==
    /\ nOps = 2 /\ AllIdle
    /\ Len(allocs) = 1
    /\ lastOp.op = "generate" /\ lastOp.regen = 0
    /\ lastOp.code = "REUSED" /\ lastOp.rid = 1

----------------------------------------------------------------------------
(* C2 *)

----------------------------------------------------------------------------
(* C8 *)

EventsLinked(db) ==
    \A i \in DOMAIN db.billing_events :
        LET e == db.billing_events[i]
        IN /\ e.status = "INVOICED" =>
                /\ e.invoice_id \in DOMAIN db.invoices
                /\ ~db.invoices[e.invoice_id].deleted
           /\ e.status = "PENDING" => e.invoice_id = NULL /\ e.fx_rate_thbkrw = NULL
           /\ \A j \in DOMAIN db.invoices :
                db.invoices[j].deleted => e.invoice_id # j

\* C8: every INVOICED event refers to a non-deleted invoice, and no event
\* refers to a tombstoned invoice: an event released by a regeneration is
\* PENDING with invoice_id and fx rate cleared.  This holds of the committed
\* rows and of the rows as every open transaction has written them.
C8_InvoicedEventHasLiveInvoice ==
    /\ EventsLinked(DB)
    /\ \A t \in Slots : EventsLinked(TxView(t))

\* a draft was regenerated: its invoice is tombstoned and its events are
\* linked to the new draft
C8_Witness ==
    /\ \E j \in DOMAIN invoices : invoices[j].deleted
    /\ lastOp.op = "generate" /\ lastOp.regen = 1 /\ lastOp.code = "OK"
    /\ \E i \in DOMAIN billing_events :
          billing_events[i].status = "INVOICED" /\ billing_events[i].invoice_id = lastOp.rid

----------------------------------------------------------------------------
(* C9 *)

\* C9: a generate answered NO_PENDING_EVENTS creates no invoice row and no
\* invoice item and allocates no sequence number.
C9_NoPendingEventsCreatesNothing ==
    [][ (Completes /\ lastOp'.op = "generate" /\ lastOp'.code = "NO_PENDING_EVENTS")
        => ( /\ Len(invoices') = Len(invoices)
             /\ Len(invoice_items') = Len(invoice_items)
             /\ invoice_sequences' = invoice_sequences
             /\ allocs' = allocs ) ]_vars

\* a generate for a month without PENDING events has been answered
C9_Witness ==
    /\ lastOp.op = "generate" /\ lastOp.code = "NO_PENDING_EVENTS"
    /\ PendingEvents(billing_events, lastOp.month) = {}

----------------------------------------------------------------------------
(* C10 *)

\* C10: a generate answered with a failure code leaves every table as it
\* was before the answer.
C10_FailedGenerateChangesNothing ==
    [][ (Completes /\ lastOp'.op = "generate" /\ lastOp'.code \in GenerateFailures)
        => UNCHANGED tables ]_vars

----------------------------------------------------------------------------
(* C3 *)

\* C3: the k-th committed allocation of a (client, yyyymm) key hands out the
\* number k, whichever of the callers made it: numbers rise by one in commit
\* order, none twice, none skipped.
C3_SequenceGapless ==
    \A k \in DOMAIN allocs :
        allocs[k].seq =
            1 + Cardinality({j \in 1..(k - 1) : allocs[j].yyyymm = allocs[k].yyyymm})

\* generate, duplicate-admin and the settlement issue have each allocated a
\* number of the same key
C3_Witness ==
    /\ Len(allocs) = 3
    /\ \A k \in DOMAIN allocs : allocs[k].yyyymm = 202602
    /\ \E i \in DOMAIN invoices : invoices[i].settlement_batch_id # NULL
    /\ \E i \in DOMAIN invoices :
          invoices[i].status = "draft" /\ invoices[i].invoice_no = <<"KRW", 202602, 3>>

----------------------------------------------------------------------------
(* C4 *)

\* C4: for the invoice a successful generate has just created, the amounts
\* of its per-service-code items plus vat_krw make total_krw, and subtotal,
\* VAT and total are multiples of 100.
C4_TotalsConsistent ==
    (lastOp.op = "generate" /\ lastOp.code = "OK") =>
        LET inv == invoices[lastOp.rid]
        IN /\ SumItemAmounts(invoice_items, ServiceItemsOf(invoice_items, lastOp.rid))
                + inv.vat_krw = inv.total_krw
           /\ IsMultipleOf100(inv.subtotal_krw)
           /\ IsMultipleOf100(inv.vat_krw)
           /\ IsMultipleOf100(inv.total_krw)

\* a generated invoice with two service items and a VAT that is not zero
C4_Witness ==
    /\ lastOp.op = "generate" /\ lastOp.code = "OK"
    /\ Cardinality(ServiceItemsOf(invoice_items, lastOp.rid)) = 2
    /\ invoices[lastOp.rid].vat_krw > 0

----------------------------------------------------------------------------
(* C5 *)

RECURSIVE SumFun(_, _)
SumFun(f, S) ==
    IF S = {} THEN 0
    ELSE LET x == CHOOSE y \in S : TRUE IN f[x] + SumFun(f, S \ {x})

Floor100(x) == (x \div 100) * 100

\* C5: a successful generate stores floor(amount_thb * fx / 100) * 100 on a
\* THB_BASED event and floor(amount_krw / 100) * 100 on a KRW_FIXED event,
\* takes every PENDING event of the month, and stores subtotal = the sum over
\* service codes of floor(group sum / 100) * 100, vat = floor((subtotal * 7 /
\* 100) / 100) * 100 and total = subtotal + vat.
C5_Amounts ==
    [][ (Completes /\ lastOp'.op = "generate" /\ lastOp'.code = "OK") =>
        LET id == lastOp'.rid
            inv == invoices'[id]
            fx == inv.fx_rate_thbkrw
            E == {i \in DOMAIN billing_events : billing_events'[i].invoice_id = id}
            norm == [i \in E |->
                        IF billing_events[i].pricing_policy = "THB_BASED"
                        THEN Floor100(billing_events[i].amount_thb * fx)
                        ELSE Floor100(billing_events[i].amount_krw)]
            codes == {billing_events[i].service_code : i \in E}
            line == [c \in codes |->
                        Floor100(SumFun(norm, {i \in E : billing_events[i].service_code = c}))]
            subtotal == SumFun(line, codes)
            vat == Floor100((subtotal * 7) \div 100)
        IN /\ PendingEvents(billing_events, lastOp'.month) \subseteq E
           /\ E # {}
           /\ \A i \in E : billing_events'[i].amount_krw = norm[i]
           /\ inv.subtotal_krw = subtotal
           /\ inv.vat_krw = vat
           /\ inv.total_krw = subtotal + vat ]_vars

\* the example: one THB_BASED event of 120 THB at rate 40
C5_Witness ==
    /\ lastOp.op = "generate" /\ lastOp.code = "OK"
    /\ Len(billing_events) = 1
    /\ billing_events[1].amount_thb = 120
    /\ billing_events[1].amount_krw = 4800
    /\ invoices[lastOp.rid].fx_rate_thbkrw = 40
    /\ invoices[lastOp.rid].subtotal_krw = 4800
    /\ invoices[lastOp.rid].vat_krw = 300
    /\ invoices[lastOp.rid].total_krw = 5100

----------------------------------------------------------------------------
(* C6 *)

\* C6: no step changes an exchange-rate row whose locked flag is 1; in
\* particular locked never goes from 1 back to 0.
C6_LockedRateUnchanged ==
    [][ \A id \in DOMAIN exchange_rates :
            exchange_rates[id].locked = 1 => exchange_rates'[id] = exchange_rates[id] ]_vars

----------------------------------------------------------------------------
(* C7 *)

\* C7: the exchange-rate row a committed invoice took its fx rate from is
\* never changed or tombstoned afterwards.
C7_UsedRateUnchanged ==
    [][ \A k \in DOMAIN allocs :
            allocs[k].fx_rate_id # 0 =>
                exchange_rates'[allocs[k].fx_rate_id] = exchange_rates[allocs[k].fx_rate_id] ]_vars

----------------------------------------------------------------------------
(* C11 *)

\* C11: an invoice's status changes only from draft to issued, in the step
\* that answers an issue of that invoice with success, and from issued to
\* paid, in the step that answers a mark-paid of it with success; an issue or
\* mark-paid answered INVALID_STATUS changes no table; issue succeeds only on
\* an invoice that is draft when it commits and mark-paid only on one that is
\* issued, so that neither transition happens twice.
C11_StatusMovesForward ==
    [][ /\ \A id \in DOMAIN invoices :
              invoices'[id].status # invoices[id].status =>
                 \/ /\ invoices[id].status = "draft" /\ invoices'[id].status = "issued"
                    /\ Completes /\ lastOp'.op = "issue"
                    /\ lastOp'.code = "OK" /\ lastOp'.rid = id
                 \/ /\ invoices[id].status = "issued" /\ invoices'[id].status = "paid"
                    /\ Completes /\ lastOp'.op = "markPaid"
                    /\ lastOp'.code = "OK" /\ lastOp'.rid = id
        /\ (Completes /\ lastOp'.op \in {"issue", "markPaid"}
                      /\ lastOp'.code = "INVALID_STATUS") => UNCHANGED tables
        /\ (Completes /\ lastOp'.op = "issue" /\ lastOp'.code = "OK") =>
              invoices[lastOp'.rid].status = "draft"
        /\ (Completes /\ lastOp'.op = "markPaid" /\ lastOp'.code = "OK") =>
              invoices[lastOp'.rid].status = "issued"
        /\ (Completes /\ lastOp'.op = "issue" /\ lastOp'.arg \in DOMAIN invoices
                      /\ ~invoices[lastOp'.arg].deleted
                      /\ invoices[lastOp'.arg].status # "draft") =>
              lastOp'.code = "INVALID_STATUS"
        /\ (Completes /\ lastOp'.op = "markPaid" /\ lastOp'.arg \in DOMAIN invoices
                      /\ ~invoices[lastOp'.arg].deleted
                      /\ invoices[lastOp'.arg].status # "issued") =>
              lastOp'.code = "INVALID_STATUS" ]_vars

\* an invoice was issued and paid, and a further mark-paid of it was refused
C11_Witness ==
    /\ lastOp.op = "markPaid" /\ lastOp.code = "INVALID_STATUS"
    /\ lastOp.arg \in DOMAIN invoices
    /\ invoices[lastOp.arg].status = "paid"

----------------------------------------------------------------------------
(* C12 *)

\* the month has a non-deleted invoice that is issued or paid
IssuedExists(invoice_month) ==
    \E i \in MonthInvoices(invoice_month) : invoices[i].status \in {"issued", "paid"}

\* the step takes in a generate request for the month
GenerateArrives(invoice_month) ==
    /\ nOps' = nOps + 1
    /\ \/ \E t \in Slots : /\ Free(t)
                           /\ req'[t].op = "generate"
                           /\ req'[t].month = invoice_month
       \/ /\ Completes
          /\ lastOp'.op = "generate"
          /\ lastOp'.month = invoice_month

\* C12: a generate request that arrives while its month has a non-deleted
\* issued or paid invoice is answered INVOICE_ALREADY_ISSUED at once and
\* changes no table, whatever regenerate_draft is.
C12_IssuedBlocksGenerate ==
    [][ \A m \in Months :
           (IssuedExists(m) /\ GenerateArrives(m)) =>
              ( /\ Completes
                /\ lastOp'.code = "INVOICE_ALREADY_ISSUED"
                /\ UNCHANGED tables ) ]_vars

----------------------------------------------------------------------------
(* C13 *)

\* the step answers a duplicate-admin of a non-deleted invoice
DuplicateAnswered ==
    /\ Completes
    /\ lastOp'.op = "duplicate"
    /\ lastOp'.arg \in DOMAIN invoices
    /\ ~invoices[lastOp'.arg].deleted

\* C13: a duplicate-admin of an issued or paid invoice succeeds and adds one
\* invoice, a draft whose number is the one just allocated and is carried by
\* no other invoice, and one copy of each active item of the source, and
\* changes no invoice, no item and no billing event that existed; a
\* duplicate-admin of a draft is answered INVALID_STATUS and changes nothing.
C13_DuplicateCopies ==
    [][ DuplicateAnswered =>
        LET src == lastOp'.arg
            new == Len(invoices) + 1
            active == SelectSeq(invoice_items,
                          LAMBDA it : it.invoice_id = src /\ ~it.deleted)
        IN IF invoices[src].status = "draft"
           THEN lastOp'.code = "INVALID_STATUS" /\ UNCHANGED <<tables, allocs>>
           ELSE /\ lastOp'.code = "OK" /\ lastOp'.rid = new
                /\ Len(invoices') = new
                /\ \A i \in DOMAIN invoices : invoices'[i] = invoices[i]
                /\ invoices'[new].status = "draft"
                /\ ~invoices'[new].deleted
                /\ Len(allocs') = Len(allocs) + 1
                /\ invoices'[new].invoice_no =
                      InvoiceNo("KRW", invoices[src].invoice_month, allocs'[Len(allocs')].seq)
                /\ \A i \in DOMAIN invoices :
                      invoices[i].invoice_no # invoices'[new].invoice_no
                /\ Len(invoice_items') = Len(invoice_items) + Len(active)
                /\ \A k \in DOMAIN invoice_items : invoice_items'[k] = invoice_items[k]
                /\ \A k \in 1..Len(active) :
                      invoice_items'[Len(invoice_items) + k] =
                          [active[k] EXCEPT !.invoice_id = new]
                /\ billing_events' = billing_events ]_vars

\* a paid invoice with items has been duplicated
C13_Witness ==
    /\ lastOp.op = "duplicate" /\ lastOp.code = "OK"
    /\ invoices[lastOp.arg].status = "paid"
    /\ invoices[lastOp.rid].status = "draft"
    /\ \E k \in DOMAIN invoice_items : invoice_items[k].invoice_id = lastOp.rid

----------------------------------------------------------------------------
(* C14 *)

\* C14: a non-deleted invoice that is issued or paid is never tombstoned,
\* keeps its number, fx rate and totals (only its status may change), and
\* its items stay as they are: none changed or tombstoned, none added.
C14_IssuedInvoiceImmutable ==
    [][ \A i \in DOMAIN invoices :
          (invoices[i].status \in {"issued", "paid"} /\ ~invoices[i].deleted) =>
             /\ invoices'[i] = [invoices[i] EXCEPT !.status = invoices'[i].status]
             /\ \A k \in DOMAIN invoice_items :
                   invoice_items[k].invoice_id = i => invoice_items'[k] = invoice_items[k]
             /\ \A k \in DOMAIN invoice_items' :
                   invoice_items'[k].invoice_id = i => k \in DOMAIN invoice_items ]_vars

\* a generate with regenerate_draft = 1 has been refused for a month whose
\* invoice is paid
C14_Witness ==
    /\ lastOp.op = "generate" /\ lastOp.regen = 1
    /\ lastOp.code = "INVOICE_ALREADY_ISSUED"
    /\ \E i \in MonthInvoices(lastOp.month) : invoices[i].status = "paid"

----------------------------------------------------------------------------
(* C15 *)

\* the event is linked to a non-deleted invoice that is issued or paid
LinkedToIssued(e) ==
    /\ billing_events[e].invoice_id \in DOMAIN invoices
    /\ ~invoices[billing_events[e].invoice_id].deleted
    /\ invoices[billing_events[e].invoice_id].status \in {"issued", "paid"}

\* C15: no step changes a billing event linked to a non-deleted issued or
\* paid invoice, and a mark-pending request whose list holds such an event is
\* answered EVENTS_LOCKED and changes no billing event.
C15_IssuedEventsStayInvoiced ==
    [][ /\ \A e \in DOMAIN billing_events :
              LinkedToIssued(e) => billing_events'[e] = billing_events[e]
        /\ \A ids \in SUBSET (1..Len(billing_events)) \ {{}} :
              (MarkPending(ids) /\ \E e \in ids : LinkedToIssued(e)) =>
                 /\ lastOp'.code = "EVENTS_LOCKED"
                 /\ billing_events' = billing_events ]_vars

\* a mark-pending was refused for events of a paid invoice
C15_Witness ==
    /\ lastOp.op = "markPending" /\ lastOp.code = "EVENTS_LOCKED"
    /\ \E e \in DOMAIN billing_events :
          /\ billing_events[e].status = "INVOICED"
          /\ invoices[billing_events[e].invoice_id].status = "paid"

----------------------------------------------------------------------------
(* C16 *)

\* a step in which a request of the operation o is answered
Answers(o) == Completes /\ lastOp'.op = o

\* the 'close' rows of the audit log of a batch
CloseLogs(rows, batchId) ==
    {k \in DOMAIN rows : rows[k].settlement_batch_id = batchId /\ rows[k].action = "close"}

\* C16: a close answered while the batch is closed answers ALREADY_CLOSED
\* and changes neither the batches nor the audit log; a close answered while
\* the batch is reviewed or open answers OK, closes the batch and appends one
\* 'close' row; a close answers OK from no other status. So of the close
\* calls racing on one batch the first to be answered succeeds and the
\* others are refused.
C16_CloseOnce ==
    [][ (Answers("close") /\ BatchFound(lastOp'.arg)) =>
          LET b == lastOp'.arg
              status == settlement_batches[b].status
          IN /\ status = "closed" =>
                  /\ lastOp'.code = "ALREADY_CLOSED"
                  /\ settlement_batches' = settlement_batches
                  /\ settlement_reopen_logs' = settlement_reopen_logs
             /\ status \in {"reviewed", "open"} =>
                  /\ lastOp'.code = "OK"
                  /\ settlement_batches'[b].status = "closed"
                  /\ Len(settlement_reopen_logs') = Len(settlement_reopen_logs) + 1
             /\ lastOp'.code = "OK" => status \in {"reviewed", "open"} ]_vars

\* a second close of the batch was refused: the batch is closed and its audit
\* log holds the one 'close' row of the first
C16_Witness ==
    /\ lastOp.op = "close" /\ lastOp.code = "ALREADY_CLOSED"
    /\ settlement_batches[lastOp.arg].status = "closed"
    /\ Cardinality(CloseLogs(settlement_reopen_logs, lastOp.arg)) = 1
    /\ nOps = 2

----------------------------------------------------------------------------
(* C17 *)

\* C17: in every state each batch has at most one non-deleted reopen request
\* with status requested; a reopen request answered while the batch is not
\* closed answers INVALID_STATUS, and one answered while the batch is closed
\* and has a requested request answers REQUEST_EXISTS; neither adds a request.
C17_OneRequestedPerBatch ==
    /\ [](\A b \in DOMAIN settlement_batches :
             Cardinality(PendingRequests(settlement_reopen_requests, b)) <= 1)
    /\ [][ (Answers("reopenRequest") /\ BatchFound(lastOp'.arg)) =>
             LET b == lastOp'.arg
             IN /\ settlement_batches[b].status # "closed" =>
                     /\ lastOp'.code = "INVALID_STATUS"
                     /\ settlement_reopen_requests' = settlement_reopen_requests
                /\ (/\ settlement_batches[b].status = "closed"
                    /\ PendingRequests(settlement_reopen_requests, b) # {}) =>
                     /\ lastOp'.code = "REQUEST_EXISTS"
                     /\ settlement_reopen_requests' = settlement_reopen_requests ]_vars

\* a second reopen request for a closed batch was refused while the first is
\* still requested
C17_Witness ==
    /\ lastOp.op = "reopenRequest" /\ lastOp.code = "REQUEST_EXISTS"
    /\ settlement_batches[lastOp.arg].status = "closed"
    /\ Cardinality(PendingRequests(settlement_reopen_requests, lastOp.arg)) = 1

----------------------------------------------------------------------------
(* C18 *)

\* the non-deleted lines of a batch
ActiveLines(rows, batchId) ==
    {k \in DOMAIN rows : rows[k].settlement_batch_id = batchId /\ ~rows[k].deleted}

\* the step answers the approval of a reopen request of the batch
ApprovesReopenOf(batchId) ==
    /\ Answers("approve") /\ lastOp'.code = "OK"
    /\ settlement_reopen_requests[lastOp'.arg].settlement_batch_id = batchId

\* C18: a step taken while a batch is closed leaves it closed with its lines
\* as they are, unless the step answers the approval of a reopen request of
\* that batch.
C18_ClosedStaysClosed ==
    [][ \A b \in DOMAIN settlement_batches :
          (settlement_batches[b].status = "closed" /\ ~ApprovesReopenOf(b)) =>
             /\ settlement_batches'[b].status = "closed"
             /\ ActiveLines(settlement_lines', b) = ActiveLines(settlement_lines, b) ]_vars

----------------------------------------------------------------------------
(* C19 *)

\* the batch a successful close, approve or reject acted on
BatchActedOn ==
    IF lastOp'.op = "close" THEN lastOp'.arg
    ELSE settlement_reopen_requests[lastOp'.arg].settlement_batch_id

\* the old rows of the audit log are all there, unchanged, in the new log
LogKept ==
    /\ Len(settlement_reopen_logs') >= Len(settlement_reopen_logs)
    /\ SubSeq(settlement_reopen_logs', 1, Len(settlement_reopen_logs))
          = settlement_reopen_logs

\* C19: every step keeps the rows of the audit log as they are, and a step
\* that answers a successful close, approve or reject appends exactly one
\* row for the batch acted on, with an actor and the time of the step.
C19_EveryActionLogged ==
    [][ /\ LogKept
        /\ \A o \in {"close", "approve", "reject"} :
              (Answers(o) /\ lastOp'.code = "OK") =>
                 /\ Len(settlement_reopen_logs') = Len(settlement_reopen_logs) + 1
                 /\ LET row == settlement_reopen_logs'[Len(settlement_reopen_logs')]
                    IN /\ row.settlement_batch_id = BatchActedOn
                       /\ row.actor_id \in Actors
                       /\ row.acted_at = Now ]_vars

----------------------------------------------------------------------------
(* C20 *)

\* the status a decision gives a request
DecidedStatus(o) == IF o = "approve" THEN "approved" ELSE "rejected"

\* C20: the status of a reopen request changes only from requested, and only
\* in the step that answers its approve (to approved) or its reject (to
\* rejected) with success; an approve or reject answered while the request is
\* not requested answers INVALID_STATUS and changes no table, and one answered
\* while it is requested succeeds. So of an approve and a reject racing on
\* one request the first to be answered succeeds and the other is refused.
C20_RequestDecidedOnce ==
    [][ /\ \A q \in DOMAIN settlement_reopen_requests :
              settlement_reopen_requests'[q].status # settlement_reopen_requests[q].status =>
                 /\ settlement_reopen_requests[q].status = "requested"
                 /\ \E o \in {"approve", "reject"} :
                       /\ Answers(o) /\ lastOp'.code = "OK" /\ lastOp'.arg = q
                       /\ settlement_reopen_requests'[q].status = DecidedStatus(o)
        /\ \A o \in {"approve", "reject"} :
              (Answers(o) /\ RequestFound(lastOp'.arg)) =>
                 LET q == lastOp'.arg
                 IN IF settlement_reopen_requests[q].status # "requested"
                    THEN lastOp'.code = "INVALID_STATUS" /\ UNCHANGED tables
                    ELSE /\ lastOp'.code = "OK"
                         /\ settlement_reopen_requests'[q].status = DecidedStatus(o) ]_vars

\* a reject of an approved request was refused, and the request stays approved
C20_Witness ==
    /\ lastOp.op = "reject" /\ lastOp.code = "INVALID_STATUS"
    /\ settlement_reopen_requests[lastOp.arg].status = "approved"
    /\ settlement_batches[settlement_reopen_requests[lastOp.arg].settlement_batch_id].status
          = "reviewed"

----------------------------------------------------------------------------
(* C21 *)

\* the batch of the request a decision was answered for
BatchDecided == settlement_reopen_requests[lastOp'.arg].settlement_batch_id

\* C21: a step that answers a successful approve leaves the request's batch
\* reviewed with closed_at and closed_by null and its other fields as they
\* were; a step that answers a successful reject leaves every field of the
\* request's batch, and so its status, as it was.
C21_DecisionEffectOnBatch ==
    [][ /\ (Answers("approve") /\ lastOp'.code = "OK") =>
              settlement_batches'[BatchDecided] =
                 [settlement_batches[BatchDecided] EXCEPT
                     !.status = "reviewed", !.closed_at = NULL, !.closed_by = NULL]
        /\ (Answers("reject") /\ lastOp'.code = "OK") =>
              settlement_batches'[BatchDecided] = settlement_batches[BatchDecided] ]_vars

\* a closed batch was reopened by an approve: its audit log holds the close
\* and the reopen, and the batch is reviewed with the close columns null
C21_Witness ==
    /\ lastOp.op = "approve" /\ lastOp.code = "OK"
    /\ LET b == settlement_reopen_requests[lastOp.arg].settlement_batch_id
       IN /\ CloseLogs(settlement_reopen_logs, b) # {}
          /\ settlement_batches[b].status = "reviewed"
          /\ settlement_batches[b].closed_at = NULL
          /\ settlement_batches[b].closed_by = NULL

----------------------------------------------------------------------------
(* C22 *)

\* the non-deleted invoices of a settlement batch
BatchInvoices(rows, batchId) ==
    {i \in DOMAIN rows : rows[i].settlement_batch_id = batchId /\ ~rows[i].deleted}

\* C22: in every state a settlement batch has at most one non-deleted
\* invoice (so one sequence number was consumed for it), and an issue that
\* arrives while the batch has one is answered with that invoice and changes
\* no table.
C22_OneInvoicePerBatch ==
    /\ [](\A b \in DOMAIN settlement_batches :
             Cardinality(BatchInvoices(invoices, b)) <= 1)
    /\ [][ (/\ Answers("settlementIssue") /\ nOps' = nOps + 1
            /\ BatchInvoices(invoices, lastOp'.arg) # {}) =>
               /\ lastOp'.code = "REUSED"
               /\ lastOp'.rid \in BatchInvoices(invoices, lastOp'.arg)
               /\ UNCHANGED tables ]_vars

----------------------------------------------------------------------------
(* C23 *)

\* available_qty of a key: the balance row's, zero without a row
AvailableQty(rows, location_id) ==
    LET S == {i \in DOMAIN rows : rows[i].location_id = location_id}
    IN IF S = {} THEN 0 ELSE rows[CHOOSE i \in S : TRUE].available_qty

\* qty_in minus qty_out summed over the non-deleted ledger entries of a key
LedgerSum(rows, location_id) ==
    SumSeq([k \in 1..Len(rows) |->
              IF rows[k].location_id = location_id /\ ~rows[k].deleted
              THEN rows[k].qty_in - rows[k].qty_out ELSE 0])

\* C23: in every state, for every key, available_qty equals the sum of
\* qty_in minus qty_out over the non-deleted ledger entries of the key,
\* return_dispose entries included.
C23_BalanceEqualsLedger ==
    \A l \in Locations :
        AvailableQty(stock_balances, l) = LedgerSum(stock_transactions, l)

\* what an outbound request may change of the stock: balances, ledger and
\* service events
StockBooks == <<stock_balances, stock_transactions, service_events>>

\* an outbound of this quantity exceeds what is available under its key
ExceedsAvailable(location_id, qty) ==
    qty > AvailableQty(stock_balances, location_id)

\* C24: no committed outbound create or update leaves a balance negative: an
\* outbound whose qty exceeds the available quantity of its key is rejected
\* and changes neither balance, ledger nor service events, also when two
\* outbound requests against one key run concurrently.
C24_NoNegativeBalance ==
    /\ [](\A l \in Locations : AvailableQty(stock_balances, l) >= 0)
    /\ [][\A item \in OutboundPayloads :
            (PostOutbound(item) /\ OrderFound(item.order_id)
                /\ ExceedsAvailable(item.location_id, item.qty))
            => (lastOp'.code # "OK" /\ UNCHANGED StockBooks)]_vars

----------------------------------------------------------------------------
(* C25 *)

\* C25: in every state, every non-deleted invoice, whether created by
\* generate, by duplicate-admin or by issuing from a settlement batch, has
\* subtotal, VAT, total and total_amount that are multiples of 100.
C25_InvoiceTotalsMultiplesOf100 ==
    \A i \in DOMAIN invoices :
        ~invoices[i].deleted =>
            /\ IsMultipleOf100(invoices[i].subtotal_krw)
            /\ IsMultipleOf100(invoices[i].vat_krw)
            /\ IsMultipleOf100(invoices[i].total_krw)
            /\ IsMultipleOf100(invoices[i].total_amount)

----------------------------------------------------------------------------
(* C26 *)

\* a generate transaction that is under way in slot t before and after the step
Generating(t) == req[t].op = "generate" /\ req'[t].op = "generate"

\* the locks a generate transaction holds
RateTaken(t) == req[t].fxId # 0
SeqTaken(t) == req[t].pc = "write"

\* the steps in which it acquires them
AcquiresRate(t) == Generating(t) /\ req[t].fxId = 0 /\ req'[t].fxId # 0
AcquiresSeq(t) == Generating(t) /\ req[t].pc # "write" /\ req'[t].pc = "write"
AcquiresEvents(t) == Generating(t) /\ ~(req'[t].evs \subseteq req[t].evs)

\* the events of the draft a regeneration releases
DraftEvents(t) ==
    IF req[t].existing = 0 THEN {}
    ELSE {i \in DOMAIN billing_events :
            billing_events[i].invoice_id = req[t].existing}

\* C26: within one generate transaction the row locks are acquired in the
\* order existing invoice, exchange rate, sequence counter, billing events:
\* the rate is locked before the counter and before any event, the counter
\* before any event, and no generate locks billing events before it locked
\* the sequence counter.
C26_LockOrder ==
    [][\A t \in Slots :
         /\ AcquiresRate(t) => (~SeqTaken(t) /\ req[t].evs = {})
         /\ AcquiresSeq(t) => (RateTaken(t) /\ req[t].evs = {})
         /\ AcquiresEvents(t) => (RateTaken(t) /\ SeqTaken(t))]_vars

\* C26, amended: the locks of the SELECT ... FOR UPDATE statements are
\* acquired in the order existing invoice, exchange rate, pending billing
\* events, sequence counter; before the rate a regeneration holds only the
\* events of the draft it releases, and no generate locks the sequence
\* counter before it locked the month's pending events.
C26_LockOrderEventsFirst ==
    [][\A t \in Slots :
         /\ AcquiresRate(t) =>
               (~SeqTaken(t) /\ req[t].evs \subseteq DraftEvents(t))
         /\ AcquiresEvents(t) =>
               \/ (RateTaken(t) /\ ~SeqTaken(t))
               \/ (~RateTaken(t) /\ req[t].existing # 0
                     /\ req'[t].evs = DraftEvents(t))
         /\ AcquiresSeq(t) =>
               (RateTaken(t) /\ req[t].evs # {})]_vars

\* a generate transaction holds the locks of a rate, of pending events and
\* of an existing counter row
C26_Witness ==
    \E t \in Slots :
        /\ req[t].op = "generate" /\ req[t].pc = "write"
        /\ req[t].fxId # 0 /\ req[t].evs # {} /\ req[t].seqRow # 0

----------------------------------------------------------------------------
(* C27 *)

\* the events a generate linked to the invoice it created
EventsOfInvoice(rows, invoiceId) ==
    {i \in DOMAIN rows : rows[i].invoice_id = invoiceId}

\* the row is a non-deleted active rate dated on or before the date
RateOnOrBefore(rows, id, invoice_date) ==
    /\ id \in DOMAIN rows
    /\ ~rows[id].deleted /\ rows[id].status = "active"
    /\ rows[id].rate_date <= invoice_date

\* the row is the latest of them, the greatest id among equal dates
IsLatestOnOrBefore(rows, id, invoice_date) ==
    /\ RateOnOrBefore(rows, id, invoice_date)
    /\ \A j \in DOMAIN rows :
          RateOnOrBefore(rows, j, invoice_date) =>
             \/ rows[j].rate_date < rows[id].rate_date
             \/ (rows[j].rate_date = rows[id].rate_date /\ j <= id)

\* the generate of slot t commits an invoice in this step
GenerateCommits(t) ==
    /\ req[t].op = "generate" /\ req[t].pc = "write" /\ req'[t].pc = "idle"
    /\ Answers("generate") /\ lastOp'.code = "OK"

----------------------------------------------------------------------------
(* C28 *)

\* the items of an invoice as the customer reads them: service code,
\* quantity, unit price and amount, the VAT item included
ItemLines(items, invoiceId) ==
    {[service_code |-> items[k].service_code, qty |-> items[k].qty,
      unit_price_krw |-> items[k].unit_price_krw,
      amount_krw |-> items[k].amount_krw] :
        k \in {j \in DOMAIN items : items[j].invoice_id = invoiceId}}

\* the generate of slot t regenerates a draft whose month has no event but
\* the draft's own, at the rate the draft was made with
RegeneratesUnchanged(t) ==
    /\ GenerateCommits(t)
    /\ req[t].regen = 1 /\ req[t].existing # 0
    /\ EventsOfInvoice(billing_events, req[t].existing) # {}
    /\ EventsInRange(billing_events, req[t].month)
          = EventsOfInvoice(billing_events, req[t].existing)
    /\ exchange_rates[req[t].fxId].rate = invoices[req[t].existing].fx_rate_thbkrw

\* C28: regenerating a draft when the month's billing events and the
\* selected rate are unchanged tombstones it and yields a new draft with the
\* same subtotal, VAT, total and items, linked to exactly the same events,
\* under another id and a strictly greater sequence number.
C28_RegenerateReproducesDraft ==
    [][\A t \in Slots :
         RegeneratesUnchanged(t) =>
            LET old == invoices[req[t].existing]
                new == invoices'[lastOp'.rid]
            IN /\ lastOp'.rid # req[t].existing
               /\ invoices'[req[t].existing].deleted /\ ~new.deleted
               /\ new.status = "draft" /\ new.invoice_month = old.invoice_month
               /\ new.subtotal_krw = old.subtotal_krw
               /\ new.vat_krw = old.vat_krw
               /\ new.total_krw = old.total_krw
               /\ new.fx_rate_thbkrw = old.fx_rate_thbkrw
               /\ ItemLines(invoice_items', lastOp'.rid)
                     = ItemLines(invoice_items, req[t].existing)
               /\ EventsOfInvoice(billing_events', lastOp'.rid)
                     = EventsOfInvoice(billing_events, req[t].existing)
               /\ EventsOfInvoice(billing_events', req[t].existing) = {}
               /\ new.invoice_no[1] = old.invoice_no[1]
               /\ new.invoice_no[2] = old.invoice_no[2]
               /\ new.invoice_no[3] > old.invoice_no[3]]_vars

\* a draft of two events was regenerated: it is tombstoned and the new draft
\* has its total and its two events
C28_Witness ==
    /\ lastOp.op = "generate" /\ lastOp.regen = 1 /\ lastOp.code = "OK"
    /\ Cardinality(EventsOfInvoice(billing_events, lastOp.rid)) = 2
    /\ \E i \in DOMAIN invoices :
          /\ invoices[i].deleted /\ i # lastOp.rid
          /\ invoices[i].invoice_month = invoices[lastOp.rid].invoice_month
          /\ invoices[i].total_krw = invoices[lastOp.rid].total_krw
          /\ invoices[i].total_krw > 0
          /\ ItemLines(invoice_items, i) = ItemLines(invoice_items, lastOp.rid)

----------------------------------------------------------------------------
(* C29 *)

\* the non-deleted lines of a batch for one source event
LinesOfEvent(rows, batchId, eventId) ==
    {k \in ActiveLines(rows, batchId) : rows[k].source_service_event_id = eventId}

\* the non-deleted service events dated in the month
MonthServiceEvents(rows, billing_month) ==
    {e \in DOMAIN rows :
        /\ ~rows[e].deleted
        /\ rows[e].event_date >= billing_month * 100 + 1
        /\ rows[e].event_date <= billing_month * 100 + 31}

\* the sum of the amounts of the lines of one currency
RECURSIVE LineAmounts(_, _, _)
LineAmounts(rows, lines, currency) ==
    IF lines = {} THEN 0
    ELSE LET k == CHOOSE x \in lines : TRUE
         IN (IF rows[k].currency = currency THEN rows[k].amount ELSE 0)
               + LineAmounts(rows, lines \ {k}, currency)

\* the settlement generate of slot t commits in this step
SettlementGenerated(t) ==
    /\ req[t].op = "settlementGenerate" /\ req[t].pc = "write"
    /\ req'[t].pc = "idle"
    /\ Answers("settlementGenerate") /\ lastOp'.code = "OK"

----------------------------------------------------------------------------
(* C30 *)

\* the non-deleted outbound_shipped events of the movements of an outbound item
ActiveEventsOfItem(itemId) ==
    {e \in DOMAIN service_events :
        /\ service_events[e].source_type = "outbound_shipped"
        /\ ~service_events[e].deleted
        /\ service_events[e].stock_transaction_id \in DOMAIN stock_transactions
        /\ LET txn == stock_transactions[service_events[e].stock_transaction_id]
           IN txn.ref_type = "outbound_item" /\ txn.ref_id = itemId}

\* the PUT of slot t commits in this step, for an item that is not deleted
\* and whose movement has a service event
PutOutboundCommits(t) ==
    /\ req[t].op = "putOutbound" /\ req[t].pc = "write" /\ req'[t].pc = "idle"
    /\ Answers("putOutbound") /\ lastOp'.code = "OK"
    /\ ~outbound_items[req[t].arg].deleted
    /\ OutboundEventsOf(service_events,
          getStockTxnId(stock_transactions, "outbound_ship", "outbound_item",
                        req[t].arg)) # {}

----------------------------------------------------------------------------
(* C31 *)

\* the non-deleted service events of source outbound_shipped
ActiveOutboundEvents ==
    {e \in DOMAIN service_events :
        /\ service_events[e].source_type = "outbound_shipped"
        /\ ~service_events[e].deleted}

\* C31: in every state, no non-deleted service event of source
\* outbound_shipped refers to a tombstoned stock transaction or to a deleted
\* outbound item.
C31_EventHasLiveMovement ==
    \A e \in ActiveOutboundEvents :
        LET s == service_events[e].stock_transaction_id
        IN /\ s \in DOMAIN stock_transactions
           /\ ~stock_transactions[s].deleted
           /\ stock_transactions[s].ref_id \in DOMAIN outbound_items
           /\ ~outbound_items[stock_transactions[s].ref_id].deleted

----------------------------------------------------------------------------
(* C32 *)

\* the non-deleted ledger entries of an outbound item or a return item
ActiveEntriesOf(rows, refType, refId) ==
    {k \in DOMAIN rows :
        ~rows[k].deleted /\ rows[k].ref_type = refType /\ rows[k].ref_id = refId}

\* the reference type of the items a delete request removes
RefTypeOf(op) == IF op = "deleteOutbound" THEN "outbound_item" ELSE "return_item"

\* the delete of slot t commits in this step
DeleteCommits(t) ==
    /\ req[t].op \in {"deleteOutbound", "deleteReturn"}
    /\ req[t].pc = "write" /\ req'[t].pc = "idle"
    /\ Completes /\ lastOp'.op = req[t].op /\ lastOp'.code = "OK"

\* what the ledger entries of the item, as they are when the delete commits,
\* have added to the balance of a key
EntriesDelta(rows, refType, refId, location_id) ==
    SumSeq([k \in 1..Len(rows) |->
              IF /\ k \in ActiveEntriesOf(rows, refType, refId)
                 /\ rows[k].location_id = location_id
                 /\ rows[k].txn_type # "return_dispose"
              THEN rows[k].qty_in - rows[k].qty_out ELSE 0])

----------------------------------------------------------------------------
(* C33 *)

\* no price policy is active for the client of the order on its date
NoActivePolicy(order_id) ==
    resolveActivePricePolicy(OutboundOrders[order_id].client_id,
                             OutboundOrders[order_id].order_date) = 0

\* the active ledger entry of the outbound item is at the location with
\* the qty as qty_out
MovementRecorded(rows, itemId, location_id, qty) ==
    LET s == getStockTxnId(rows, "outbound_ship", "outbound_item", itemId)
    IN /\ s # 0
       /\ rows[s].location_id = location_id
       /\ rows[s].qty_out = qty /\ rows[s].qty_in = 0

\* C33: a create or an update of an outbound item for an order without an
\* active price policy answers OK: the balance of the key goes down by the
\* qty (an update first gives back the qty it read), the ledger entry of the
\* item is recorded with the qty, and the service events stay as they are.
C33_NoPolicyStillSucceeds ==
    [][/\ \A item \in OutboundPayloads :
            (/\ PostOutbound(item)
             /\ OrderFound(item.order_id)
             /\ NoActivePolicy(item.order_id)) =>
               /\ lastOp'.code = "OK"
               /\ Len(outbound_items') = Len(outbound_items) + 1
               /\ AvailableQty(stock_balances', item.location_id)
                    = AvailableQty(stock_balances, item.location_id) - item.qty
               /\ MovementRecorded(stock_transactions', Len(outbound_items'),
                                   item.location_id, item.qty)
               /\ service_events' = service_events
       /\ \A t \in Slots :
            (/\ req[t].op = "putOutbound" /\ req[t].pc = "write"
             /\ req'[t].pc = "idle"
             /\ NoActivePolicy(req[t].item.order_id)) =>
               /\ lastOp'.op = "putOutbound" /\ lastOp'.code = "OK"
               /\ \A l \in Locations :
                     AvailableQty(stock_balances', l)
                       = AvailableQty(stock_balances, l)
                           + (IF l = req[t].prev.location_id THEN req[t].prev.qty ELSE 0)
                           - (IF l = req[t].item.location_id THEN req[t].item.qty ELSE 0)
               /\ MovementRecorded(stock_transactions', req[t].arg,
                                   req[t].item.location_id, req[t].item.qty)
               /\ service_events' = service_events]_vars

\* an item created for the order of client 2, who has no price policy, was
\* updated to qty 3: it has its ledger entry and no service event
C33_Witness ==
    /\ lastOp.op = "putOutbound" /\ lastOp.code = "OK"
    /\ \E i \in DOMAIN outbound_items :
          /\ i = lastOp.arg
          /\ outbound_items[i].outbound_order_id = 2 /\ outbound_items[i].qty = 3
          /\ NoActivePolicy(2)
          /\ MovementRecorded(stock_transactions, i, 1, 3)
          /\ \A e \in DOMAIN service_events :
                service_events[e].source_type # "outbound_shipped"

----------------------------------------------------------------------------
(* C40 *)

\* C40: when a PUT of an outbound item that is not deleted commits with OK,
\* every non-deleted outbound_shipped service event of the item's movement
\* has the qty of the item as updated and the client of the order the item
\* now belongs to, whether or not that order has an active price policy.
C40_EventFollowsItem ==
    [][\A t \in Slots :
          (/\ req[t].op = "putOutbound" /\ req[t].pc = "write"
           /\ req'[t].pc = "idle"
           /\ lastOp'.op = "putOutbound" /\ lastOp'.code = "OK"
           /\ ~outbound_items[req[t].arg].deleted) =>
             \A e \in {x \in DOMAIN service_events' :
                         /\ service_events'[x].source_type = "outbound_shipped"
                         /\ ~service_events'[x].deleted
                         /\ service_events'[x].stock_transaction_id
                              = getStockTxnId(stock_transactions', "outbound_ship",
                                              "outbound_item", req[t].arg)} :
                /\ service_events'[e].qty = outbound_items'[req[t].arg].qty
                /\ service_events'[e].client_id
                     = OutboundOrders[outbound_items'[req[t].arg].outbound_order_id].client_id]_vars

----------------------------------------------------------------------------
(* C34 *)

\* the policies of the client that are active and not deleted, of a service
\* that is active and not deleted, and effective on the date
EffectivePolicies(clientId, d) ==
    {i \in DOMAIN price_policies :
        /\ price_policies[i].client_id = clientId
        /\ price_policies[i].status = "active" /\ ~price_policies[i].deleted
        /\ price_policies[i].service_status = "active"
        /\ ~price_policies[i].service_deleted
        /\ price_policies[i].effective_from <= d
        /\ (price_policies[i].effective_to = NULL
               \/ price_policies[i].effective_to >= d)}

\* the units a basis bills
BasisUnits(basis, qty, boxCount) ==
    CASE basis = "QTY" -> qty
      [] basis = "BOX" -> boxCount
      [] basis = "ORDER" -> 1
      [] OTHER -> 0

\* C34: for every table of at most two price policies and every order date,
\* the resolver returns 0 exactly when the client has no effective policy,
\* and otherwise the effective policy with the greatest effective_from, the
\* greatest id among those; the first outbound item of the order gets no
\* service event in the first case and in the second one event with the
\* policy's unit price and amount = unit price * units of the basis.
C34_ResolverAndAmount ==
    [][\A item \in PricePayloads :
          PostOutbound(item) =>
             LET o == OutboundOrders[item.order_id]
                 E == EffectivePolicies(o.client_id, o.order_date)
                 r == resolveActivePricePolicy(o.client_id, o.order_date)
             IN /\ (r = 0) <=> (E = {})
                /\ E = {} => service_events' = service_events
                /\ E # {} =>
                     /\ r \in E
                     /\ \A j \in E :
                           price_policies[j].effective_from
                              <= price_policies[r].effective_from
                     /\ \A j \in E :
                           price_policies[j].effective_from
                              = price_policies[r].effective_from => j <= r
                     /\ Len(service_events') = Len(service_events) + 1
                     /\ LET e == service_events'[Len(service_events')]
                        IN /\ e.unit_price = price_policies[r].unit_price
                           /\ e.amount = price_policies[r].unit_price
                                * BasisUnits(price_policies[r].billing_basis,
                                             item.qty, item.box_count)
                           /\ e.source_type = "outbound_shipped"
                           /\ ~e.deleted]_vars

\* two effective policies with the same effective_from: the item of the
\* January order is billed by the second, per box (8 * 3)
C34_Witness ==
    /\ Len(price_policies) = 2
    /\ price_policies[1].effective_from = price_policies[2].effective_from
    /\ EffectivePolicies(1, 20260115) = {1, 2}
    /\ price_policies[2].billing_basis = "BOX"
    /\ Len(outbound_items) = 1 /\ outbound_items[1].outbound_order_id = 3
    /\ service_events[Len(service_events)].source_type = "outbound_shipped"
    /\ service_events[Len(service_events)].amount = 24

----------------------------------------------------------------------------
(* C35 *)

\* C35: in every state every billing event has the amount of its pricing
\* policy and not the other: a THB_BASED event has amount_thb and no
\* amount_krw, a KRW_FIXED event has amount_krw and no amount_thb, whether
\* the event is PENDING or INVOICED.
C35_AmountsByPolicy ==
    \A i \in DOMAIN billing_events :
       /\ billing_events[i].pricing_policy = "THB_BASED" =>
             /\ billing_events[i].amount_thb # NULL
             /\ billing_events[i].amount_krw = NULL
       /\ billing_events[i].pricing_policy = "KRW_FIXED" =>
             /\ billing_events[i].amount_krw # NULL
             /\ billing_events[i].amount_thb = NULL

----------------------------------------------------------------------------
(* C36 *)

\* the service codes of the billing events
EventServiceCodes == <<"TH_SHIPPING", "OUTBOUND_FEE", "TH_BOX">>

\* the sum of amount_krw over the events now linked to the invoice that
\* have the service code
LinkedAmount(invoiceId, service_code) ==
    SumSeq([e \in 1..Len(billing_events) |->
              IF /\ billing_events[e].invoice_id = invoiceId
                 /\ billing_events[e].service_code = service_code
                 /\ billing_events[e].amount_krw # NULL
              THEN billing_events[e].amount_krw ELSE 0])

\* C36: in every state, the subtotal_krw of every non-deleted invoice that
\* generate created is the sum, over the service codes, of the amount_krw of
\* the billing events now linked to the invoice, each sum truncated to 100:
\* no request takes events off a live invoice and leaves its totals.
C36_SubtotalOfLinkedEvents ==
    \A i \in DOMAIN invoices :
       ~invoices[i].deleted =>
          invoices[i].subtotal_krw =
             SumSeq([k \in 1..Len(EventServiceCodes) |->
                       trunc100(LinkedAmount(i, EventServiceCodes[k]))])

----------------------------------------------------------------------------
(* C37 *)

\* the non-deleted invoices that are issued or paid
IssuedOrPaid ==
    {i \in DOMAIN invoices :
        ~invoices[i].deleted /\ invoices[i].status \in {"issued", "paid"}}

\* C37: in every state, the amount of each billing event is carried by the
\* items of at most one non-deleted issued-or-paid invoice: no two such
\* invoices have items that aggregate the same billing event.
C37_EventBilledOnce ==
    \A e \in DOMAIN billing_events :
       Cardinality({i \in IssuedOrPaid : e \in AggregatedEvents(i)}) <= 1

----------------------------------------------------------------------------
(* C38 *)

\* the non-deleted invoices issued from a settlement batch
InvoicesOfBatches ==
    {i \in DOMAIN invoices :
        ~invoices[i].deleted /\ invoices[i].settlement_batch_id # NULL}

\* C38: in every state, every non-deleted invoice issued from a settlement
\* batch has total_amount equal to the total_krw the batch has now, and each
\* of its invoice lines refers to a non-deleted settlement line of that
\* batch: a settlement generate run again for the batch leaves neither a
\* stale total nor a reference to a tombstoned line.
C38_BatchInvoiceFollowsBatch ==
    \A i \in InvoicesOfBatches :
       LET b == invoices[i].settlement_batch_id
       IN /\ invoices[i].total_amount = settlement_batches[b].total_krw
          /\ \A k \in DOMAIN invoice_lines :
                (invoice_lines[k].invoice_id = i /\ ~invoice_lines[k].deleted) =>
                   /\ invoice_lines[k].settlement_line_id \in DOMAIN settlement_lines
                   /\ ~settlement_lines[invoice_lines[k].settlement_line_id].deleted
                   /\ settlement_lines[invoice_lines[k].settlement_line_id]
                         .settlement_batch_id = b

----------------------------------------------------------------------------
(* C39 *)

\* C39: in no state does a generate that regenerates a draft wait for an
\* event lock of a mark-pending that waits for the draft's invoice lock:
\* the two requests never deadlock.
C39_NoDeadlock ==
    \A t \in Slots : \A u \in Slots \ {t} :
       ~(/\ req[t].op = "generate" /\ req[u].op = "markPending"
         /\ WaitsFor(t, u) /\ WaitsFor(u, t))

============================================================================
